---- MODULE Spec2Model ----
(***************************************************************************)
(* Model of src/script.js.  Class NeovimMastery: the challenge catalog,    *)
(* the filter pass (applyFilters), progress tracking in localStorage       *)
(* (saveProgress / loadProgress / resetProgress / exportProgress), the     *)
(* challenge modal with its practice session, the practice tab with its    *)
(* exercises and the flashcards.  The cheatsheet page: cheatsheetApp.init  *)
(* and themeManager.                                                       *)
(*                                                                         *)
(* JavaScript strings are sequences of one-character strings, so that      *)
(* toLowerCase, trim and includes are computed rather than assumed.        *)
(* JavaScript values stored in the completed Set are tagged records        *)
(* (number / string / null), because JSON.parse may produce any of them.   *)
(* An optional value (null or an object) is a sequence of length 0 or 1.   *)
(***************************************************************************)
EXTENDS Integers, Sequences, FiniteSets, TLC

VARIABLES
    phase,               \* position of init(): "loading", "ready" or "failed"
    fetchResult,         \* what fetch('./neovim-mastery.json') will deliver
    challengeData,       \* this.challengeData: <<>> (null) or <<document>>
    filteredChallenges,  \* this.filteredChallenges
    completedChallenges, \* this.completedChallenges (a Set, in insertion order)
    searchInput,         \* value of #search-input
    activeDifficulty,    \* data-value of the active difficulty button
    activeTags,          \* data-values of the active tag chips
    tagChips,            \* tag chips created by renderTagFilters
    progressKey,         \* localStorage['neovim-mastery-progress']
    currentChallenge,    \* this.currentChallenge: <<>> or <<entry>>
    toggleButtonId,      \* #toggle-completion dataset.challengeId
    modalHidden,         \* #challenge-modal has class 'hidden'
    practiceState,       \* this.practiceState
    editorSession,       \* this.editorSession: <<>> or <<session>>
    pendingSuggestions,  \* timers scheduled by showCompletionSuggestion
    progressFill,        \* width of .progress-fill set by updateStats
    editor,              \* this.editor: <<>> or <<CodeMirror instance>>
    currentExercise,     \* this.currentExercise: <<>> or <<exercise>>
    exerciseStats,       \* this.exerciseStats
    exerciseKey,         \* localStorage['neovim-mastery-exercise-progress']
    successRate,         \* number shown in #success-rate: <<>> until written
    feedbackHidden,      \* #feedback-modal has class 'hidden'
    difficultyCounts,    \* texts of the #count-... elements: <<>> until written
    suggestedFor,        \* editorSession.challengeId when each pending suggestion was scheduled
    feedbackTimers,      \* timers (800 ms) scheduled by showCompletionFeedback
    tryAnotherOnclick,   \* showFeedbackModal has set #try-another.onclick
    exerciseControls,    \* #start-exercise and #reset-exercise disabled, #submit-exercise hidden
    loadedExercise,      \* whether the text of this.editor was last set by
                         \* loadExerciseContent, from the initial_text of the
                         \* exercise that is now this.currentExercise
    activeTab,           \* the section switchTab shows: the others have class 'hidden'
    currentFlashcard,    \* this.currentFlashcard
    flashcardStats,      \* this.flashcardStats
    selectedChoice,      \* this.selectedChoice: <<>> (null) or <<index>>
    revealHidden,        \* #reveal-answer is hidden and the choice buttons are disabled
    osScheme,            \* matchMedia('(prefers-color-scheme: dark)'): "dark" or "light"
    themeItem,           \* localStorage['cheatsheet-theme']: <<>> (no item) or <<theme>>
    dataTheme,           \* attribute data-theme of the document element: <<>> until set
    themeWatching,       \* setupThemeWatcher has registered the 'change' listener
    storedTheme,         \* the item getPreferredTheme read when themeManager.init ran
    sheetPhase,          \* position of cheatsheetApp.init: "created", "loading" or "done"
    sheetResponse,       \* what fetch('./cheatsheet.json') will deliver
    loading,             \* cheatsheetApp.loading
    error,               \* cheatsheetApp.error: <<>> (null) or <<message>>
    cheatsheet,          \* cheatsheetApp.cheatsheet
    lastAction           \* the handler that ran last, its argument, the
                         \* document it offered for download and whether an
                         \* exception left it ("no", or the place of the throw)

vars == <<phase, fetchResult, challengeData, filteredChallenges,
          completedChallenges, searchInput, activeDifficulty, activeTags,
          tagChips, progressKey, currentChallenge, toggleButtonId,
          modalHidden, practiceState, editorSession, pendingSuggestions,
          progressFill, editor, currentExercise, exerciseStats, exerciseKey,
          successRate, feedbackHidden,
          difficultyCounts,
          suggestedFor,
          feedbackTimers, tryAnotherOnclick,
          exerciseControls, loadedExercise,
          activeTab, currentFlashcard, flashcardStats, selectedChoice, revealHidden,
          osScheme, themeItem, dataTheme, themeWatching, storedTheme,
          sheetPhase, sheetResponse, loading, error, cheatsheet, lastAction>>

\* the state of the mastery page: the NeovimMastery instance and its document
masteryVars == <<phase, fetchResult, challengeData, filteredChallenges,
                 completedChallenges, searchInput, activeDifficulty,
                 activeTags, tagChips, progressKey, currentChallenge,
                 toggleButtonId, modalHidden, practiceState, editorSession,
                 pendingSuggestions, progressFill, editor, currentExercise,
                 exerciseStats, exerciseKey, successRate, feedbackHidden,
                 difficultyCounts, suggestedFor, feedbackTimers,
                 tryAnotherOnclick, exerciseControls, loadedExercise,
                 activeTab, currentFlashcard, flashcardStats, selectedChoice,
                 revealHidden, lastAction>>

\* the state of the cheatsheet page: themeManager and cheatsheetApp
sheetVars == <<osScheme, themeItem, dataTheme, themeWatching, storedTheme,
               sheetPhase, sheetResponse, loading, error, cheatsheet>>

\* the state of the practice tab
exerciseVars ==
    <<currentExercise, exerciseStats, exerciseKey, successRate, feedbackHidden>>

-----------------------------------------------------------------------------
(* Bounds of the model *)

MaxStrLen == 2        \* length of the strings typed into the search box
MaxCatalog == 3       \* catalog length explored by the filter specification
MaxAppCatalog == 2    \* catalog length explored by the other specifications
MaxTimestamp == 1     \* distinct values of new Date().toISOString()
MaxPending == 1       \* completion-suggestion timers pending at once
MaxExportCatalog == 40  \* catalog length explored by the export specification
MaxExportCompleted == 23 \* stored completed ids explored by the same
MaxStoredCompleted == 3 \* stored count of completed exercises
MaxColOffset == 3     \* cursor columns explored around a target column
MaxTextLen == 3       \* length of the texts typed into the exercise editor
MaxLookupId == 3      \* ids passed to the lookups
MaxCards == 2            \* flashcards of a document
MaxAnswers == 3          \* answers counted in flashcardStats

-----------------------------------------------------------------------------
(* Strings *)

Alphabet == {"a", "B", " "}

RECURSIVE StringsUpTo(_)
StringsUpTo(n) ==
    IF n = 0 THEN {<<>>}
    ELSE LET shorter == StringsUpTo(n - 1)
         IN  shorter \cup {Append(s, c) : s \in shorter, c \in Alphabet}

ToLowerChar(c) ==
    CASE c = "A" -> "a"
      [] c = "B" -> "b"
      [] OTHER -> c

toLowerCase(s) == [i \in 1..Len(s) |-> ToLowerChar(s[i])]

IsWhitespace(c) == c = " "

RECURSIVE trimStart(_)
trimStart(s) ==
    IF s # <<>> /\ IsWhitespace(Head(s)) THEN trimStart(Tail(s)) ELSE s

RECURSIVE trimEnd(_)
trimEnd(s) ==
    IF s # <<>> /\ IsWhitespace(s[Len(s)])
    THEN trimEnd(SubSeq(s, 1, Len(s) - 1))
    ELSE s

trim(s) == trimEnd(trimStart(s))

\* String.prototype.includes
includes(s, t) ==
    \E i \in 0..(Len(s) - Len(t)) : SubSeq(s, i + 1, i + Len(t)) = t

\* Array.prototype.some / Array.prototype.includes on an array of strings
arrayIncludes(arr, x) == \E i \in 1..Len(arr) : arr[i] = x

Range(f) == {f[i] : i \in DOMAIN f}

-----------------------------------------------------------------------------
(* The catalog document *)

Difficulties == {"Beginner", "Intermediate", "Advanced", "Expert"}

DifficultyValues == {"all"} \cup Difficulties

Entry(i, t, d, tg, df) ==
    [id |-> i, title |-> t, description |-> d, tags |-> tg, difficulty |-> df]

EntryPool ==
    { Entry(1, <<"A", "b">>, <<"b", " ", "a">>, << <<"a">> >>, "Beginner"),
      Entry(2, <<"a">>, <<>>, << <<"B">> >>, "Beginner"),
      Entry(3, <<"b", "b">>, <<"A">>, << <<"a">>, <<"B">> >>, "Advanced"),
      Entry(4, <<" ", "b">>, <<"b">>, <<>>, "Expert") }

RECURSIVE SeqsUpTo(_, _)
SeqsUpTo(pool, n) ==
    IF n = 0 THEN {<<>>}
    ELSE LET shorter == SeqsUpTo(pool, n - 1)
         IN  shorter \cup {Append(c, e) : c \in shorter, e \in pool}

HasUniqueIds(c) ==
    \A i, j \in 1..Len(c) : c[i].id = c[j].id => i = j

\* catalogs of at most n entries of the pool, ids unique, in any order
Catalogs(pool, n) == {c \in SeqsUpTo(pool, n) : HasUniqueIds(c)}

Document(c) == [challenges |-> c]

-----------------------------------------------------------------------------
(* JavaScript values held by the completed Set, and the Set itself *)

Num(n) == [t |-> "num", n |-> n]
Str(s) == [t |-> "str", s |-> s]
Null == [t |-> "null"]
NaN == [t |-> "nan"]

\* Set.prototype.has / add / delete on a Set kept in insertion order
has(set, v) == \E i \in 1..Len(set) : set[i] = v

add(set, v) == IF has(set, v) THEN set ELSE Append(set, v)

delete(set, v) ==
    LET Keep(x) == x # v
    IN  SelectSeq(set, Keep)

\* new Set(array): first occurrences, in order
RECURSIVE newSet(_)
newSet(arr) ==
    IF arr = <<>> THEN <<>>
    ELSE add(newSet(SubSeq(arr, 1, Len(arr) - 1)), arr[Len(arr)])

\* the members of a Set, without their order
Members(set) == Range(set)

-----------------------------------------------------------------------------
(* JSON text in localStorage.  A text is unparseable ("garbage"), the empty *)
(* string, or the syntax tree of a JSON value.                              *)

Garbage == [kind |-> "garbage"]
EmptyText == [kind |-> "empty"]
Json(v) == [kind |-> "json", value |-> v]

JNull == [t |-> "null"]
JNum(n) == [t |-> "num", n |-> n]
JStr(s) == [t |-> "str", s |-> s]
JArr(items) == [t |-> "arr", items |-> items]
\* an object; fields is a function from field names to JSON values
JObj(fields) == [t |-> "obj", fields |-> fields]

\* JSON.stringify of one array element: NaN is written as null
stringifyElement(v) == IF v.t = "nan" THEN JNull ELSE v

\* JSON.stringify({completedChallenges: [...], lastUpdated: ts})
stringifyProgress(arr, ts) ==
    Json(JObj([completedChallenges |->
                   JArr([i \in 1..Len(arr) |-> stringifyElement(arr[i])]),
               lastUpdated |-> JStr(<<"T", ts>>)]))

\* JSON.parse: throws SyntaxError on anything that is not JSON
JSONparse(text) ==
    IF text.kind = "json"
    THEN [threw |-> FALSE, value |-> text.value]
    ELSE [threw |-> TRUE]

\* variant: another property name is read
readCompletedChallenges_wrongKey(progress) ==
    IF progress.t = "null" THEN [threw |-> TRUE]
    ELSE IF progress.t = "obj" /\ "completed" \in DOMAIN progress.fields
    THEN [threw |-> FALSE, value |-> <<progress.fields.completed>>]
    ELSE [threw |-> FALSE, value |-> <<>>]

\* progress.completedChallenges: TypeError on null, undefined (<<>>) when
\* the parsed value is not an object or lacks the property
readCompletedChallenges(progress) ==
    IF progress.t = "null" THEN [threw |-> TRUE]
    ELSE IF progress.t = "obj" /\ "completedChallenges" \in DOMAIN progress.fields
    THEN [threw |-> FALSE, value |-> <<progress.fields.completedChallenges>>]
    ELSE [threw |-> FALSE, value |-> <<>>]

\* JavaScript truthiness of an optional JSON-born value
Truthy(opt) ==
    /\ opt # <<>>
    /\ opt[1].t # "null"
    /\ ~(opt[1].t = "num" /\ opt[1].n = 0)
    /\ ~(opt[1].t = "str" /\ opt[1].s = <<>>)

\* new Set(x) for a parsed JSON value x: an array yields its elements, a
\* string yields its characters, anything else is not iterable (TypeError)
newSetOf(x) ==
    IF x.t = "arr" THEN [threw |-> FALSE, value |-> newSet(x.items)]
    ELSE IF x.t = "str"
    THEN [threw |-> FALSE,
          value |-> newSet([i \in 1..Len(x.s) |-> Str(<<x.s[i]>>)])]
    ELSE [threw |-> TRUE]

-----------------------------------------------------------------------------
(* Filter engine: applyFilters, script.js 212-238 *)

\* variant: the tags are not searched
matchesSearch_noTags(challenge, searchTerm) ==
    \/ searchTerm = <<>>
    \/ includes(toLowerCase(challenge.title), searchTerm)
    \/ includes(toLowerCase(challenge.description), searchTerm)

matchesSearch(challenge, searchTerm) ==
    \/ searchTerm = <<>>
    \/ includes(toLowerCase(challenge.title), searchTerm)
    \/ includes(toLowerCase(challenge.description), searchTerm)
    \/ \E i \in 1..Len(challenge.tags) :
           includes(toLowerCase(challenge.tags[i]), searchTerm)

\* variant: the difficulty facet is not applied
matchesDifficulty_any(challenge, difficulty) == TRUE

matchesDifficulty(challenge, difficulty) ==
    difficulty = "all" \/ challenge.difficulty = difficulty

\* variant: every selected tag is required
matchesTags_all(challenge, tags) ==
    \A tag \in tags : arrayIncludes(challenge.tags, tag)

matchesTags(challenge, tags) ==
    tags = {} \/ \E tag \in tags : arrayIncludes(challenge.tags, tag)

\* the search term the pass uses: the argument, or when that is empty the
\* value of #search-input, lower-cased and trimmed
effectiveSearchTerm(searchTermArg, inputValue) ==
    IF searchTermArg = <<>> THEN trim(toLowerCase(inputValue)) ELSE searchTermArg

Reverse(q) == [i \in 1..Len(q) |-> q[Len(q) + 1 - i]]

\* variant: the matches come out in reverse order
applyFilters_reversed(catalog, searchTermArg, inputValue, difficulty, tags) ==
    LET searchTerm == effectiveSearchTerm(searchTermArg, inputValue)
        Test(challenge) ==
            /\ matchesSearch(challenge, searchTerm)
            /\ matchesDifficulty(challenge, difficulty)
            /\ matchesTags(challenge, tags)
    IN  Reverse(SelectSeq(catalog, Test))

applyFilters(catalog, searchTermArg, inputValue, difficulty, tags) ==
    LET searchTerm == effectiveSearchTerm(searchTermArg, inputValue)
        Test(challenge) ==
            /\ matchesSearch(challenge, searchTerm)
            /\ matchesDifficulty(challenge, difficulty)
            /\ matchesTags(challenge, tags)
    IN  SelectSeq(catalog, Test)

\* whether the entry has a tags property at all
hasTags(challenge) == "tags" \in DOMAIN challenge

\* whether the callback of the pass evaluates challenge.tags for challenge:
\* in matchesSearch when the term is in neither title nor description, in
\* matchesTags when a tag is selected
readsTags(challenge, searchTerm, tags) ==
    \/ /\ searchTerm # <<>>
       /\ ~includes(toLowerCase(challenge.title), searchTerm)
       /\ ~includes(toLowerCase(challenge.description), searchTerm)
    \/ tags # {}

\* the pass ends by a TypeError: the tags of an entry without tags are read
filterThrows(catalog, searchTermArg, inputValue, difficulty, tags) ==
    LET searchTerm == effectiveSearchTerm(searchTermArg, inputValue)
    IN  \E i \in 1..Len(catalog) :
            ~hasTags(catalog[i]) /\ readsTags(catalog[i], searchTerm, tags)

\* renderChallenges ends by a TypeError: createChallengeCard reads the tags
\* of every listed entry
renderThrows(listed) == \E i \in 1..Len(listed) : ~hasTags(listed[i])

\* renderTagFilters: one chip per distinct tag of the catalog
allTags(challenges) ==
    UNION {Range(challenges[i].tags) : i \in 1..Len(challenges)}

-----------------------------------------------------------------------------
(* Double-precision arithmetic, as far as Math.round((x / y) * 100) of     *)
(* script.js 647 and 956 needs it.  A number that is not negative is       *)
(* [bits, frac]: the binary digits, most significant first and without     *)
(* leading zeros, of an integer m, standing for m / 2^frac.                *)

MantissaBits == 53   \* significant binary digits of a double

\* the binary digits of n (n >= 0); <<>> for 0
RECURSIVE Binary(_)
Binary(n) == IF n = 0 THEN <<>> ELSE Append(Binary(n \div 2), n % 2)

\* the integer that binary digits stand for
RECURSIVE BinaryValue(_)
BinaryValue(bits) ==
    IF bits = <<>> THEN 0
    ELSE 2 * BinaryValue(SubSeq(bits, 1, Len(bits) - 1)) + bits[Len(bits)]

\* the digits without leading zeros
Normal(bits) ==
    LET ones == {i \in 1..Len(bits) : bits[i] = 1}
    IN  IF ones = {} THEN <<>>
        ELSE SubSeq(bits, CHOOSE i \in ones : \A j \in ones : i <= j, Len(bits))

\* the carries of a + b out of the digits of weight 2^(lo-1) to 2^(hi-1),
\* lowest first, given the carry into the lowest of them; by halves
RECURSIVE Carries(_, _, _, _, _)
Carries(a, b, lo, hi, carryIn) ==
    IF lo = hi
    THEN LET digitA == IF lo <= Len(a) THEN a[Len(a) + 1 - lo] ELSE 0
             digitB == IF lo <= Len(b) THEN b[Len(b) + 1 - lo] ELSE 0
         IN  <<(digitA + digitB + carryIn) \div 2>>
    ELSE LET mid == (lo + hi) \div 2
             low == Carries(a, b, lo, mid, carryIn)
         IN  low \o Carries(a, b, mid + 1, hi, low[Len(low)])

\* the digits of the sum of two integers
AddBinary(a, b) ==
    LET n == (IF Len(a) > Len(b) THEN Len(a) ELSE Len(b)) + 1
        \* the digit of weight 2^(i-1) and the carry into it
        DigitA(i) == IF i <= Len(a) THEN a[Len(a) + 1 - i] ELSE 0
        DigitB(i) == IF i <= Len(b) THEN b[Len(b) + 1 - i] ELSE 0
        carry == <<0>> \o Carries(a, b, 1, n, 0)
    IN  Normal([j \in 1..n |->
                   (DigitA(n + 1 - j) + DigitB(n + 1 - j) + carry[n + 1 - j]) % 2])

\* the digits of m + 1
Increment(bits) == AddBinary(bits, <<1>>)

\* the digits of m * 2^k
ShiftLeft(bits, k) == bits \o [i \in 1..k |-> 0]

\* the double nearest to x (ties to even); sticky says that the exact
\* value has non-zero digits beyond those of x
RoundToDouble(x, sticky) ==
    LET n == Len(x.bits)
    IN  IF n <= MantissaBits THEN x
        ELSE LET kept == SubSeq(x.bits, 1, MantissaBits)
                 half == x.bits[MantissaBits + 1] = 1
                 more == sticky \/ \E i \in (MantissaBits + 2)..n : x.bits[i] = 1
                 up == half /\ (more \/ kept[MantissaBits] = 1)
             IN  [bits |-> IF up THEN Increment(kept) ELSE kept,
                  frac |-> x.frac - (n - MantissaBits)]

\* the remainders of the long division of a remainder r by y after 1 to
\* count further digits; by halves
RECURSIVE Remainders(_, _, _)
Remainders(r, y, count) ==
    IF count = 1 THEN <<(2 * r) % y>>
    ELSE LET first == Remainders(r, y, count \div 2)
         IN  first \o Remainders(first[Len(first)], y, count - count \div 2)

\* x / y for integers x >= 0 and y > 0: the integer x / y when y divides
\* x, else by binary long division: the digits of the integer part, then
\* as many digits after the point as a double can hold of a quotient that
\* is at least 1 / y, and one more
divide(x, y) ==
    LET count == MantissaBits + 1 + Len(Binary(y))
        \* remainder[k + 1] is left after k digits behind the point
        remainder == <<x % y>> \o Remainders(x % y, y, count)
        digit(k) == IF 2 * remainder[k] >= y THEN 1 ELSE 0
        bits == Normal(Binary(x \div y) \o [k \in 1..count |-> digit(k)])
    IN  IF x % y = 0
        THEN [bits |-> Binary(x \div y), frac |-> 0]
        ELSE RoundToDouble([bits |-> bits, frac |-> count],
                           remainder[count + 1] # 0)

\* d * 100 (100 = 64 + 32 + 4)
times100(d) ==
    LET product == AddBinary(AddBinary(ShiftLeft(d.bits, 6),
                                       ShiftLeft(d.bits, 5)),
                             ShiftLeft(d.bits, 2))
    IN  RoundToDouble([bits |-> product, frac |-> d.frac], FALSE)

\* Math.round of a double below 2^53: the nearest integer, halves upwards
mathRound(d) ==
    LET n == Len(d.bits)
    IN  IF d.frac <= 0 THEN BinaryValue(d.bits)
        ELSE LET whole == IF n > d.frac
                          THEN BinaryValue(SubSeq(d.bits, 1, n - d.frac))
                          ELSE 0
                 half == IF n >= d.frac THEN d.bits[n - d.frac + 1] ELSE 0
             IN  whole + half

-----------------------------------------------------------------------------
(* Progress tracker: saveProgress / loadProgress / updateStats /           *)
(* exportProgress, script.js 325-333 and 614-661                           *)

Timestamps == 0..MaxTimestamp

\* variant: the Set as it was before its newest member was added
saveProgress_stale(completed, ts) ==
    <<stringifyProgress(SubSeq(completed, 1, Len(completed) - 1), ts)>>

\* Array.from(this.completedChallenges), stringified with a timestamp
saveProgress(completed, ts) == <<stringifyProgress(completed, ts)>>

\* the completed Set after loadProgress, given the Set before the call and
\* the stored item (<<>> when the key is missing)
loadProgress(current, item) ==
    IF item = <<>> \/ item[1].kind = "empty" THEN current
    ELSE LET parsed == JSONparse(item[1])
         IN  IF parsed.threw THEN current
             ELSE LET cc == readCompletedChallenges(parsed.value)
                  IN  IF cc.threw THEN current
                      ELSE LET arg == IF Truthy(cc.value) THEN cc.value[1]
                                      ELSE JArr(<<>>)
                               made == newSetOf(arg)
                           IN  IF made.threw THEN current ELSE made.value

\* JavaScript numbers that a division can produce
Infinity == [t |-> "inf"]

\* Math.round((size / total) * 100) in double precision; 0/0 is NaN, x/0
\* is Infinity
roundedPercentage(size, total) ==
    IF total = 0
    THEN IF size = 0 THEN NaN ELSE Infinity
    ELSE Num(mathRound(times100(divide(size, total))))

\* updateStats: total > 0 ? (completed / total) * 100 : 0, as a fraction
statsPercentage(size, total) ==
    IF total > 0
    THEN [num |-> 100 * size, den |-> total]
    ELSE [num |-> 0, den |-> 1]

exportDocument(completed, challenges) ==
    [completedChallenges |-> completed,
     totalChallenges |-> Len(challenges),
     completionPercentage |-> roundedPercentage(Len(completed), Len(challenges))]

-----------------------------------------------------------------------------
(* Practice exercises and the session evaluator, script.js 687-702 and     *)
(* 814-979                                                                 *)

\* Entries of practice_exercises.  A check-specific field, and
\* solution_check itself, is present only where the document gives it.
CursorExercise(i, line, column) ==
    [id |-> i, solution_check |-> "cursor_position", target_line |-> line,
     target_column |-> column, initial_text |-> <<"a">>]

TextExercise(i, expected) ==
    [id |-> i, solution_check |-> "text_content", expected_result |-> expected,
     initial_text |-> <<"A">>]

KindExercise(i, kind) ==
    [id |-> i, solution_check |-> kind, initial_text |-> <<>>]

PlainExercise(i) == [id |-> i, initial_text |-> <<>>]

\* exercise.solution_check, "undefined" when the property is absent
solutionCheck(exercise) ==
    IF "solution_check" \in DOMAIN exercise THEN exercise.solution_check
    ELSE "undefined"

\* Math.abs
abs(x) == IF x < 0 THEN 0 - x ELSE x

\* variant: the column has to be hit exactly
cursorPositionCheck_exactColumn(exercise, cursor) ==
    LET targetLine == exercise.target_line - 1
        targetCol == exercise.target_column
    IN  cursor.line = targetLine /\ cursor.ch = targetCol

\* case 'cursor_position'
cursorPositionCheck(exercise, cursor) ==
    LET targetLine == exercise.target_line - 1
        targetCol == exercise.target_column
    IN  cursor.line = targetLine /\ abs(cursor.ch - targetCol) <= 2

\* variant: only the submitted text is trimmed
textContentCheck_expectedUntrimmed(exercise, userContent) ==
    trim(userContent) = exercise.expected_result

\* case 'text_content'
textContentCheck(exercise, userContent) ==
    trim(userContent) = trim(exercise.expected_result)

\* variant: the lenient kinds are graded like text_content against ""
evaluateExercise_strictDefault(exercise, userContent, cursor) ==
    LET check == solutionCheck(exercise)
    IN  CASE check = "cursor_position" ->
                 LET success == cursorPositionCheck(exercise, cursor)
                 IN  [success |-> success,
                      feedback |-> IF success THEN "navigated" ELSE "try to reach"]
          [] check = "text_content" ->
                 LET success == textContentCheck(exercise, userContent)
                 IN  [success |-> success,
                      feedback |-> IF success THEN "matches" ELSE "no match"]
          [] OTHER ->
                 [success |-> trim(userContent) = <<>>, feedback |-> "completed"]

\* evaluateExercise: the verdict and which feedback text is chosen (the
\* encouragement is drawn at random and only displayed)
evaluateExercise(exercise, userContent, cursor) ==
    LET check == solutionCheck(exercise)
    IN  CASE check = "cursor_position" ->
                 LET success == cursorPositionCheck(exercise, cursor)
                 IN  [success |-> success,
                      feedback |-> IF success THEN "navigated" ELSE "try to reach"]
          [] check = "text_content" ->
                 LET success == textContentCheck(exercise, userContent)
                 IN  [success |-> success,
                      feedback |-> IF success THEN "matches" ELSE "no match"]
          [] check = "word_navigation" ->
                 [success |-> TRUE, feedback |-> "word navigation"]
          [] check = "visual_selection" ->
                 [success |-> TRUE, feedback |-> "visual mode"]
          [] check = "text_objects" ->
                 [success |-> TRUE, feedback |-> "text objects"]
          [] OTHER ->
                 [success |-> TRUE, feedback |-> "completed"]

\* the value of an <option> of #exercise-select: String(exercise.id)
Digits == <<"0", "1", "2", "3", "4", "5", "6", "7", "8", "9">>

optionValue(n) == <<Digits[n + 1]>>

\* the number a string converts to when compared with ==
ToNumber(s) ==
    IF Len(s) = 1 /\ \E d \in 1..10 : Digits[d] = s[1]
    THEN Num((CHOOSE d \in 1..10 : Digits[d] = s[1]) - 1)
    ELSE NaN

\* ex.id == exerciseId, for a numeric id and the string of the select
looseEquals(id, value) == ToNumber(value) = Num(id)

\* practice_exercises.find(ex => ex.id == exerciseId)
findExercise(exercises, value) ==
    LET hits == {i \in 1..Len(exercises) : looseEquals(exercises[i].id, value)}
    IN  IF hits = {} THEN <<>>
        ELSE <<exercises[CHOOSE i \in hits : \A j \in hits : i <= j]>>

\* this.exerciseStats as the constructor leaves it
DefaultStats == [completed |-> 0, total |-> 0, success |-> 0]

\* submitExercise: success++ on a success, completed++ always
countSubmission(stats, success) ==
    [stats EXCEPT !.success = IF success THEN @ + 1 ELSE @,
                  !.completed = @ + 1]

\* JSON.stringify({exerciseStats: this.exerciseStats, lastUpdated: ts})
saveExerciseProgress(stats, ts) ==
    <<Json(JObj([exerciseStats |->
                     JObj([completed |-> JNum(stats.completed),
                           total |-> JNum(stats.total),
                           success |-> JNum(stats.success)]),
                 lastUpdated |-> JStr(<<"T", ts>>)]))>>

\* {...current, ...source}: an object overrides the properties it has (the
\* stored documents explored hold numbers; properties other than the three
\* of the constructor are never read); null, undefined and numbers spread
\* nothing
spreadStats(current, source) ==
    IF source.t = "obj"
    THEN [k \in DOMAIN current |->
             IF k \in DOMAIN source.fields THEN source.fields[k].n
             ELSE current[k]]
    ELSE current

\* this.exerciseStats after loadExerciseProgress, given the stats before and
\* the stored item (<<>> when the key is missing)
loadExerciseProgress(current, item) ==
    IF item = <<>> \/ item[1].kind = "empty" THEN current
    ELSE LET parsed == JSONparse(item[1])
         IN  IF parsed.threw THEN current
             ELSE IF parsed.value.t = "null" THEN current
             ELSE IF /\ parsed.value.t = "obj"
                     /\ "exerciseStats" \in DOMAIN parsed.value.fields
             THEN spreadStats(current, parsed.value.fields.exerciseStats)
             ELSE current

\* updateExerciseStats: completed > 0 ?
\*     Math.round((success / completed) * 100) : 0, in double precision
\* (for counts that are not negative)
displayedRate(stats) ==
    IF stats.completed > 0
    THEN mathRound(times100(divide(stats.success, stats.completed)))
    ELSE 0

\* the CodeMirror instance made from a textarea, its text and its cursor
Cursor(line, ch) == [line |-> line, ch |-> ch]

Editor(textarea, value, cursor) ==
    [textarea |-> textarea, value |-> value, cursor |-> cursor]

\* #start-exercise disabled, #reset-exercise disabled, #submit-exercise
\* hidden, as clearExerciseInfo, selectExercise and startExercise leave them
Controls(startDisabled, resetDisabled, submitHidden) ==
    [startDisabled |-> startDisabled, resetDisabled |-> resetDisabled,
     submitHidden |-> submitHidden]

ControlsCleared == Controls(TRUE, TRUE, TRUE)

ControlsSelected == Controls(FALSE, TRUE, TRUE)

ControlsStarted == Controls(TRUE, FALSE, FALSE)

\* the practice text setupChallengeContent generates for a challenge
GeneratedPractice == <<"a", " ", "A">>

-----------------------------------------------------------------------------
(* Program constants *)

ActionThreshold == 10   \* checkChallengeProgress: actionCount > 10

-----------------------------------------------------------------------------
(* State after construction.  fetches are the outcomes of the catalog      *)
(* fetch to explore (<<>> is a failed fetch), items the stored progress    *)
(* items and exerciseItems the stored exercise-stats items (<<>> is a      *)
(* missing key).                                                           *)

MasteryConstructed(fetches, items, exerciseItems) ==
    /\ phase = "loading"
    /\ fetchResult \in fetches
    /\ challengeData = <<>>
    /\ filteredChallenges = <<>>
    /\ completedChallenges = <<>>
    /\ searchInput = <<>>
    /\ activeDifficulty = "all"
    /\ activeTags = {}
    /\ tagChips = {}
    /\ progressKey \in items
    /\ exerciseKey \in exerciseItems
    /\ currentChallenge = <<>>
    /\ toggleButtonId = <<>>
    /\ modalHidden = TRUE
    /\ practiceState = "undefined"
    /\ editorSession = <<>>
    /\ pendingSuggestions = 0
    /\ progressFill = [num |-> 0, den |-> 1]
    /\ editor = <<>>
    /\ currentExercise = <<>>
    /\ exerciseStats = DefaultStats
    /\ successRate = <<>>
    /\ feedbackHidden = TRUE
    /\ lastAction = [name |-> "constructor", id |-> 0, doc |-> <<>>,
                     threw |-> "no"]
    /\ difficultyCounts = <<>>
    /\ suggestedFor = <<>>
    /\ feedbackTimers = 0
    /\ tryAnotherOnclick = FALSE
    /\ exerciseControls = ControlsCleared
    /\ loadedExercise = FALSE
    /\ activeTab = "challenges"
    /\ currentFlashcard = 0
    /\ flashcardStats = [correct |-> 0, incorrect |-> 0, total |-> 0]
    /\ selectedChoice = <<>>
    /\ revealHidden = FALSE

-----------------------------------------------------------------------------
(* The cheatsheet document and the outcomes of its fetch, script.js        *)
(* 1711-1733                                                               *)

\* the properties loadCheatsheet requires of the document
SheetFields == {"metadata", "categories", "items"}

\* values a property of the document may hold, as far as a truthiness test
\* tells them apart: null, 0, 1 and an object or array
FieldValues == {"null", "zero", "one", "object"}

\* JavaScript truthiness of such a value
FieldTruthy(value) == value \in {"one", "object"}

\* a parsed JSON value: null, a number, or an object with the properties
\* fields (a function from the names it has to their values)
JsonValue(kind, fields) == [kind |-> kind, fields |-> fields]

NoFields == [f \in {} |-> "null"]

JsonNull == JsonValue("null", NoFields)

JsonNumber == JsonValue("number", NoFields)

\* the initial value of cheatsheetApp.cheatsheet, {} (script.js 1669)
EmptyObject == JsonValue("object", NoFields)

JsonObjects ==
    {JsonValue("object", fields) :
        fields \in UNION {[names -> FieldValues] : names \in SUBSET SheetFields}}

\* what the fetch delivers: the promise is rejected ("rejected"), the
\* response is not ok ("status"), response.json() is rejected
\* ("unparseable"), or the body parses to data ("json")
SheetResponse(outcome, data) == [outcome |-> outcome, data |-> data]

SheetRejected == SheetResponse("rejected", JsonNull)

SheetResponses ==
    {SheetResponse(outcome, JsonNull) :
        outcome \in {"rejected", "status", "unparseable"}}
    \cup {SheetResponse("json", data) :
            data \in {JsonNull, JsonNumber} \cup JsonObjects}

\* !data.field for a value that is not null: a number has no such
\* property, an object may lack it or hold a falsy value
NotField(data, field) ==
    \/ data.kind # "object"
    \/ field \notin DOMAIN data.fields
    \/ ~FieldTruthy(data.fields[field])

\* loadCheatsheet on a response, with current the value of this.cheatsheet:
\* the cause of the error it throws ("no" when it returns) and the value
\* of this.cheatsheet it leaves
loadCheatsheet(response, current) ==
    IF response.outcome = "rejected"
    THEN [threw |-> "fetch", cheatsheet |-> current]
    ELSE IF response.outcome = "status"
    THEN [threw |-> "http", cheatsheet |-> current]
    ELSE IF response.outcome = "unparseable"
    THEN [threw |-> "syntax", cheatsheet |-> current]
    ELSE IF response.data.kind = "null"
    THEN [threw |-> "type", cheatsheet |-> current]
    ELSE IF \E field \in SheetFields : NotField(response.data, field)
    THEN [threw |-> "invalid", cheatsheet |-> current]
    ELSE [threw |-> "no", cheatsheet |-> response.data]

\* the message of the error loadCheatsheet throws for a cause
\* (script.js 1731)
loadMessage(cause) == <<"Failed to load cheatsheet: ", cause>>

\* the cheatsheet page before DOMContentLoaded and before Alpine calls init
\* (script.js 1667-1669): schemes are the colour schemes of the operating
\* system, items the stored theme items and responses the fetch outcomes
\* to explore
SheetCreated(schemes, items, responses) ==
    /\ osScheme \in schemes
    /\ themeItem \in items
    /\ dataTheme = <<>>
    /\ themeWatching = FALSE
    /\ storedTheme = <<>>
    /\ sheetPhase = "created"
    /\ sheetResponse \in responses
    /\ loading = TRUE
    /\ error = <<>>
    /\ cheatsheet = EmptyObject

Constructed(fetches, items, exerciseItems) ==
    /\ MasteryConstructed(fetches, items, exerciseItems)
    /\ SheetCreated({"light"}, {<<>>}, {SheetRejected})

\* the handler name ran for id and returned
Did(name, id) ==
    lastAction' = [name |-> name, id |-> id, doc |-> <<>>, threw |-> "no"]

\* the handler name ran for id and an exception thrown at place left it
Threw(name, id, place) ==
    lastAction' = [name |-> name, id |-> id, doc |-> <<>>, threw |-> place]

\* setupEventListeners has run: init passed it, whether or not it went on
Listening == phase \in {"ready", "degraded"}

challenges == challengeData[1].challenges

\* whether the document has practice_exercises, and the list
hasExercises(document) == "practice_exercises" \in DOMAIN document

practiceExercises == challengeData[1].practice_exercises

\* this.flashcards: <<>> (undefined) until initFlashcards copies
\* flashcards_sample
hasFlashcards(document) == "flashcards_sample" \in DOMAIN document

flashcards ==
    IF challengeData # <<>> /\ hasFlashcards(challengeData[1])
    THEN <<challengeData[1].flashcards_sample>>
    ELSE <<>>

\* this.flashcards[this.currentFlashcard]: <<>> when undefined
currentCard ==
    IF flashcards # <<>> /\ currentFlashcard + 1 \in 1..Len(flashcards[1])
    THEN <<flashcards[1][currentFlashcard + 1]>>
    ELSE <<>>

\* applyFilters as the step of a handler: the list it leaves and where it
\* threw ("filter": in the pass, the list is not assigned; "render": in
\* renderChallenges, after the list was assigned)
FilterPass(searchTermArg, inputValue, difficulty, tags) ==
    IF filterThrows(challenges, searchTermArg, inputValue, difficulty, tags)
    THEN [list |-> filteredChallenges, threw |-> "filter"]
    ELSE LET list == applyFilters(challenges, searchTermArg, inputValue,
                                  difficulty, tags)
         IN  [list |-> list,
              threw |-> IF renderThrows(list) THEN "render" ELSE "no"]

\* the number of entries of list whose difficulty is difficulty
countDifficulty(list, difficulty) ==
    Cardinality({i \in 1..Len(list) : list[i].difficulty = difficulty})

\* counts[challenge.difficulty]++ over list, counts.all starting at the
\* length of list; a difficulty outside the five keys has no element
difficultyCountsOf(list) ==
    <<[d \in DifficultyValues |->
          IF d = "all" THEN Len(list) + countDifficulty(list, "all")
          ELSE countDifficulty(list, d)]>>

\* variant: the counts are taken over the filtered view
updateDifficultyCounts_filtered == difficultyCountsOf(filteredChallenges)

\* updateDifficultyCounts: the texts written to the #count-... elements
updateDifficultyCounts == difficultyCountsOf(challenges)

findChallenge(id) ==
    LET hits == {i \in 1..Len(challenges) : challenges[i].id = id}
    IN  IF hits = {} THEN <<>>
        ELSE <<challenges[CHOOSE i \in hits : \A j \in hits : i <= j]>>

-----------------------------------------------------------------------------
(* init, script.js 29-58 *)

\* loadChallengeData succeeded; the rest of init runs without suspending
InitLoaded ==
    /\ phase = "loading"
    /\ fetchResult # <<>>
    /\ ~renderThrows(fetchResult[1].challenges)
    /\ challengeData' = fetchResult
    /\ filteredChallenges' = fetchResult[1].challenges
    /\ completedChallenges' = loadProgress(completedChallenges, progressKey)
    /\ tagChips' = allTags(fetchResult[1].challenges)
    /\ progressFill' = statsPercentage(Len(completedChallenges'),
                                       Len(fetchResult[1].challenges))
    /\ IF hasExercises(fetchResult[1])
       THEN /\ exerciseStats' = loadExerciseProgress(exerciseStats, exerciseKey)
            /\ successRate' = <<displayedRate(exerciseStats')>>
       ELSE UNCHANGED <<exerciseStats, successRate>>
    /\ phase' = "ready"
    /\ Did("init", 0)
    /\ UNCHANGED <<fetchResult, searchInput, activeDifficulty, activeTags,
                   progressKey, currentChallenge, toggleButtonId, modalHidden,
                   practiceState, editorSession, pendingSuggestions, editor,
                   currentExercise, exerciseKey, feedbackHidden>>
    /\ difficultyCounts' = updateDifficultyCounts'
    /\ UNCHANGED suggestedFor
    /\ UNCHANGED <<feedbackTimers, tryAnotherOnclick>>
    /\ UNCHANGED <<exerciseControls, loadedExercise>>
    /\ currentFlashcard' = 0
    /\ selectedChoice' = <<>>
    /\ revealHidden' = FALSE
    /\ UNCHANGED <<activeTab, flashcardStats>>
    /\ UNCHANGED sheetVars

\* loadChallengeData succeeded and renderChallenges threw on an entry
\* without tags: init's catch shows the error; the listeners are attached,
\* the tag chips, the statistics and the practice tab are not set up
InitAborted ==
    /\ phase = "loading"
    /\ fetchResult # <<>>
    /\ renderThrows(fetchResult[1].challenges)
    /\ challengeData' = fetchResult
    /\ filteredChallenges' = fetchResult[1].challenges
    /\ completedChallenges' = loadProgress(completedChallenges, progressKey)
    /\ phase' = "degraded"
    /\ Did("showError", 0)
    /\ UNCHANGED <<fetchResult, searchInput, activeDifficulty, activeTags,
                   tagChips, progressKey, currentChallenge, toggleButtonId,
                   modalHidden, practiceState, editorSession,
                   pendingSuggestions, progressFill, editor, exerciseVars>>
    /\ UNCHANGED difficultyCounts
    /\ UNCHANGED suggestedFor
    /\ UNCHANGED <<feedbackTimers, tryAnotherOnclick>>
    /\ UNCHANGED <<exerciseControls, loadedExercise>>
    /\ UNCHANGED <<activeTab, currentFlashcard, flashcardStats, selectedChoice, revealHidden>>
    /\ UNCHANGED sheetVars

\* variant: the stored progress is restored although the fetch failed
InitFailed_restoring ==
    /\ phase = "loading"
    /\ fetchResult = <<>>
    /\ phase' = "failed"
    /\ completedChallenges' = loadProgress(completedChallenges, progressKey)
    /\ Did("showError", 0)
    /\ UNCHANGED <<fetchResult, challengeData, filteredChallenges,
                   searchInput, activeDifficulty,
                   activeTags, tagChips, progressKey, currentChallenge,
                   toggleButtonId, modalHidden, practiceState, editorSession,
                   pendingSuggestions, progressFill, editor, exerciseVars>>
    /\ UNCHANGED difficultyCounts
    /\ UNCHANGED suggestedFor
    /\ UNCHANGED <<feedbackTimers, tryAnotherOnclick>>
    /\ UNCHANGED <<exerciseControls, loadedExercise>>
    /\ UNCHANGED <<activeTab, currentFlashcard, flashcardStats, selectedChoice, revealHidden>>
    /\ UNCHANGED sheetVars

\* loadChallengeData threw: init shows the error and nothing else runs
InitFailed ==
    /\ phase = "loading"
    /\ fetchResult = <<>>
    /\ phase' = "failed"
    /\ Did("showError", 0)
    /\ UNCHANGED <<fetchResult, challengeData, filteredChallenges,
                   completedChallenges, searchInput, activeDifficulty,
                   activeTags, tagChips, progressKey, currentChallenge,
                   toggleButtonId, modalHidden, practiceState, editorSession,
                   pendingSuggestions, progressFill, editor, exerciseVars>>
    /\ UNCHANGED difficultyCounts
    /\ UNCHANGED suggestedFor
    /\ UNCHANGED <<feedbackTimers, tryAnotherOnclick>>
    /\ UNCHANGED <<exerciseControls, loadedExercise>>
    /\ UNCHANGED <<activeTab, currentFlashcard, flashcardStats, selectedChoice, revealHidden>>
    /\ UNCHANGED sheetVars

\* the page is loaded again (DOMContentLoaded, script.js 1629-1631): a new
\* instance and a new document; localStorage survives
Reload(fetches) ==
    /\ phase # "loading"
    /\ fetchResult' \in fetches
    /\ phase' = "loading"
    /\ challengeData' = <<>>
    /\ filteredChallenges' = <<>>
    /\ completedChallenges' = <<>>
    /\ searchInput' = <<>>
    /\ activeDifficulty' = "all"
    /\ activeTags' = {}
    /\ tagChips' = {}
    /\ currentChallenge' = <<>>
    /\ toggleButtonId' = <<>>
    /\ modalHidden' = TRUE
    /\ practiceState' = "undefined"
    /\ editorSession' = <<>>
    /\ pendingSuggestions' = 0
    /\ progressFill' = [num |-> 0, den |-> 1]
    /\ editor' = <<>>
    /\ currentExercise' = <<>>
    /\ exerciseStats' = DefaultStats
    /\ successRate' = <<>>
    /\ feedbackHidden' = TRUE
    /\ Did("constructor", 0)
    /\ UNCHANGED <<progressKey, exerciseKey>>
    /\ difficultyCounts' = <<>>
    /\ suggestedFor' = <<>>
    /\ feedbackTimers' = 0
    /\ tryAnotherOnclick' = FALSE
    /\ exerciseControls' = ControlsCleared
    /\ loadedExercise' = FALSE
    /\ activeTab' = "challenges"
    /\ currentFlashcard' = 0
    /\ flashcardStats' = [correct |-> 0, incorrect |-> 0, total |-> 0]
    /\ selectedChoice' = <<>>
    /\ revealHidden' = FALSE
    /\ dataTheme' = <<>>
    /\ themeWatching' = FALSE
    /\ storedTheme' = <<>>
    /\ sheetPhase' = "created"
    /\ loading' = TRUE
    /\ error' = <<>>
    /\ cheatsheet' = EmptyObject
    /\ UNCHANGED <<osScheme, themeItem, sheetResponse>>

-----------------------------------------------------------------------------
(* Filter handlers, script.js 184-238 *)

\* 'input' event of #search-input: the box holds query
HandleSearch(query) ==
    /\ Listening
    /\ searchInput' = query
    /\ LET pass == FilterPass(trim(toLowerCase(query)), query,
                              activeDifficulty, activeTags)
       IN  /\ filteredChallenges' = pass.list
           /\ Threw("handleSearch", 0, pass.threw)
    /\ UNCHANGED <<phase, fetchResult, challengeData, completedChallenges,
                   activeDifficulty, activeTags, tagChips, progressKey,
                   currentChallenge, toggleButtonId, modalHidden,
                   practiceState, editorSession, pendingSuggestions,
                   progressFill, editor, exerciseVars>>
    /\ difficultyCounts' = IF lastAction'.threw = "no"
                          THEN updateDifficultyCounts'
                          ELSE difficultyCounts
    /\ UNCHANGED suggestedFor
    /\ UNCHANGED <<feedbackTimers, tryAnotherOnclick>>
    /\ UNCHANGED <<exerciseControls, loadedExercise>>
    /\ UNCHANGED <<activeTab, currentFlashcard, flashcardStats, selectedChoice, revealHidden>>
    /\ UNCHANGED sheetVars

\* click on a difficulty button
HandleFilterDifficulty(value) ==
    /\ Listening
    /\ modalHidden
    /\ activeDifficulty' = value
    /\ LET pass == FilterPass(<<>>, searchInput, value, activeTags)
       IN  /\ filteredChallenges' = pass.list
           /\ Threw("handleFilter", 0, pass.threw)
    /\ UNCHANGED <<phase, fetchResult, challengeData, completedChallenges,
                   searchInput, activeTags, tagChips, progressKey,
                   currentChallenge, toggleButtonId, modalHidden,
                   practiceState, editorSession, pendingSuggestions,
                   progressFill, editor, exerciseVars>>
    /\ difficultyCounts' = IF lastAction'.threw = "no"
                          THEN updateDifficultyCounts'
                          ELSE difficultyCounts
    /\ UNCHANGED suggestedFor
    /\ UNCHANGED <<feedbackTimers, tryAnotherOnclick>>
    /\ UNCHANGED <<exerciseControls, loadedExercise>>
    /\ UNCHANGED <<activeTab, currentFlashcard, flashcardStats, selectedChoice, revealHidden>>
    /\ UNCHANGED sheetVars

\* handleFilter for a tag chip: the chip toggles.  (The chips are created by
\* renderTagFilters after setupEventListeners has attached the listeners;
\* the handler is modelled as invoked for any chip that exists.)
HandleFilterTag(value) ==
    /\ Listening
    /\ modalHidden
    /\ value \in tagChips
    /\ activeTags' = IF value \in activeTags THEN activeTags \ {value}
                     ELSE activeTags \cup {value}
    /\ LET pass == FilterPass(<<>>, searchInput, activeDifficulty, activeTags')
       IN  /\ filteredChallenges' = pass.list
           /\ Threw("handleFilter", 1, pass.threw)
    /\ UNCHANGED <<phase, fetchResult, challengeData, completedChallenges,
                   searchInput, activeDifficulty, tagChips, progressKey,
                   currentChallenge, toggleButtonId, modalHidden,
                   practiceState, editorSession, pendingSuggestions,
                   progressFill, editor, exerciseVars>>
    /\ difficultyCounts' = IF lastAction'.threw = "no"
                          THEN updateDifficultyCounts'
                          ELSE difficultyCounts
    /\ UNCHANGED suggestedFor
    /\ UNCHANGED <<feedbackTimers, tryAnotherOnclick>>
    /\ UNCHANGED <<exerciseControls, loadedExercise>>
    /\ UNCHANGED <<activeTab, currentFlashcard, flashcardStats, selectedChoice, revealHidden>>
    /\ UNCHANGED sheetVars

-----------------------------------------------------------------------------
(* Challenge modal, script.js 335-486 *)

\* click (or Enter) on the card of challenge id in the grid
OpenChallengeModal(id) ==
    /\ phase = "ready"
    /\ modalHidden
    /\ LET challenge == findChallenge(id)
       IN  IF challenge = <<>>
           THEN UNCHANGED <<currentChallenge, toggleButtonId, practiceState,
                            modalHidden>>
           ELSE /\ currentChallenge' = challenge
                /\ toggleButtonId' = <<id>>
                /\ practiceState' = "preparation"
                /\ modalHidden' = FALSE
    /\ Did("openChallengeModal", id)
    /\ UNCHANGED <<phase, fetchResult, challengeData, filteredChallenges,
                   completedChallenges, searchInput, activeDifficulty,
                   activeTags, tagChips, progressKey, editorSession,
                   pendingSuggestions, progressFill, editor, exerciseVars>>
    /\ UNCHANGED difficultyCounts
    /\ UNCHANGED suggestedFor
    /\ UNCHANGED <<feedbackTimers, tryAnotherOnclick>>
    /\ UNCHANGED <<exerciseControls, loadedExercise>>
    /\ UNCHANGED <<activeTab, currentFlashcard, flashcardStats, selectedChoice, revealHidden>>
    /\ UNCHANGED sheetVars

\* variant: the instance in this.editor survives the modal
CloseModal_keepingEditor ==
    /\ phase = "ready"
    /\ ~modalHidden
    /\ modalHidden' = TRUE
    /\ editor' = editor
    /\ currentChallenge' = <<>>
    /\ editorSession' = <<>>
    /\ practiceState' = "preparation"
    /\ Did("closeModal", 0)
    /\ UNCHANGED <<phase, fetchResult, challengeData, filteredChallenges,
                   completedChallenges, searchInput, activeDifficulty,
                   activeTags, tagChips, progressKey, toggleButtonId,
                   pendingSuggestions, progressFill, exerciseVars>>
    /\ UNCHANGED difficultyCounts
    /\ UNCHANGED suggestedFor
    /\ UNCHANGED <<feedbackTimers, tryAnotherOnclick>>
    /\ UNCHANGED exerciseControls
    /\ loadedExercise' = FALSE
    /\ UNCHANGED <<activeTab, currentFlashcard, flashcardStats, selectedChoice, revealHidden>>
    /\ UNCHANGED sheetVars

\* modal-close, modal-cancel, backdrop click or Escape
CloseModal ==
    /\ phase = "ready"
    /\ ~modalHidden
    /\ modalHidden' = TRUE
    /\ editor' = <<>>
    /\ currentChallenge' = <<>>
    /\ editorSession' = <<>>
    /\ practiceState' = "preparation"
    /\ Did("closeModal", 0)
    /\ UNCHANGED <<phase, fetchResult, challengeData, filteredChallenges,
                   completedChallenges, searchInput, activeDifficulty,
                   activeTags, tagChips, progressKey, toggleButtonId,
                   pendingSuggestions, progressFill, exerciseVars>>
    /\ UNCHANGED difficultyCounts
    /\ UNCHANGED suggestedFor
    /\ UNCHANGED <<feedbackTimers, tryAnotherOnclick>>
    /\ UNCHANGED exerciseControls
    /\ loadedExercise' = FALSE
    /\ UNCHANGED <<activeTab, currentFlashcard, flashcardStats, selectedChoice, revealHidden>>
    /\ UNCHANGED sheetVars

\* parseInt(toggleButton.dataset.challengeId)
toggleButtonChallengeId ==
    IF toggleButtonId = <<>> THEN NaN ELSE Num(toggleButtonId[1])

\* variant: the id is added whether or not it is present
toggleCompletion_addOnly(completed, challengeId) == add(completed, challengeId)

\* the flip of toggleChallengeCompletion
toggleCompletion(completed, challengeId) ==
    IF has(completed, challengeId)
    THEN delete(completed, challengeId)
    ELSE add(completed, challengeId)

\* click on #toggle-completion in the open modal
ToggleChallengeCompletion ==
    /\ phase = "ready"
    /\ ~modalHidden
    /\ completedChallenges' =
           toggleCompletion(completedChallenges, toggleButtonChallengeId)
    /\ \E ts \in Timestamps :
           progressKey' = saveProgress(completedChallenges', ts)
    /\ progressFill' = statsPercentage(Len(completedChallenges'),
                                       Len(challenges))
    /\ modalHidden' = TRUE
    /\ editor' = <<>>
    /\ currentChallenge' = <<>>
    /\ editorSession' = <<>>
    /\ practiceState' = "preparation"
    /\ Did("toggleChallengeCompletion",
           IF toggleButtonId = <<>> THEN 0 ELSE toggleButtonId[1])
    /\ UNCHANGED <<phase, fetchResult, challengeData, filteredChallenges,
                   searchInput, activeDifficulty, activeTags, tagChips,
                   toggleButtonId, pendingSuggestions, exerciseVars>>
    /\ difficultyCounts' = updateDifficultyCounts'
    /\ UNCHANGED suggestedFor
    /\ UNCHANGED <<feedbackTimers, tryAnotherOnclick>>
    /\ UNCHANGED exerciseControls
    /\ loadedExercise' = FALSE
    /\ UNCHANGED <<activeTab, currentFlashcard, flashcardStats, selectedChoice, revealHidden>>
    /\ UNCHANGED sheetVars

-----------------------------------------------------------------------------
(* Practice session of the modal, script.js 1029-1076, 1389-1446, 1561-1609 *)

newSession(id) == <<[challengeId |-> id, actions |-> 0]>>

\* trackEditorAction: one more recorded action (counted up to the
\* threshold, beyond which checkChallengeProgress cannot tell counts apart)
trackEditorAction(session) ==
    IF session = <<>> THEN session
    ELSE <<[session[1] EXCEPT !.actions =
               IF @ > ActionThreshold THEN @ ELSE @ + 1]>>

\* variant: ending the practice keeps the session
TogglePractice_keepingSession ==
    /\ phase = "ready"
    /\ ~modalHidden
    /\ IF practiceState = "preparation"
       THEN IF currentChallenge = <<>>
            THEN UNCHANGED <<practiceState, editorSession, editor>>
            ELSE /\ practiceState' = "active"
                 /\ editor' = <<Editor("challenge-editor", GeneratedPractice,
                                       Cursor(0, 0))>>
                 /\ editorSession' = newSession(currentChallenge[1].id)
       ELSE /\ practiceState' = "preparation"
            /\ editor' = <<>>
            /\ editorSession' = editorSession
    /\ feedbackHidden' = TRUE
    /\ Did("togglePractice", 0)
    /\ UNCHANGED <<phase, fetchResult, challengeData, filteredChallenges,
                   completedChallenges, searchInput, activeDifficulty,
                   activeTags, tagChips, progressKey, currentChallenge,
                   toggleButtonId, modalHidden, pendingSuggestions,
                   progressFill, currentExercise, exerciseStats,
                   exerciseKey, successRate>>
    /\ UNCHANGED difficultyCounts
    /\ UNCHANGED suggestedFor
    /\ UNCHANGED <<feedbackTimers, tryAnotherOnclick>>
    /\ UNCHANGED exerciseControls
    /\ loadedExercise' = (loadedExercise /\ editor' = editor)
    /\ activeTab' = "practice"
    /\ UNCHANGED <<currentFlashcard, flashcardStats, selectedChoice, revealHidden>>
    /\ UNCHANGED sheetVars

\* click on #practice-challenge: startPractice (with initializeEditor on
\* #challenge-editor) or endPracticeSession, and then the second listener,
\* practiceFromChallenge, which closes the feedback modal and shows the
\* practice tab behind the challenge modal
TogglePractice ==
    /\ phase = "ready"
    /\ ~modalHidden
    /\ IF practiceState = "preparation"
       THEN IF currentChallenge = <<>>
            THEN UNCHANGED <<practiceState, editorSession, editor>>
            ELSE /\ practiceState' = "active"
                 /\ editor' = <<Editor("challenge-editor", GeneratedPractice,
                                       Cursor(0, 0))>>
                 /\ editorSession' = newSession(currentChallenge[1].id)
       ELSE /\ practiceState' = "preparation"
            /\ editor' = <<>>
            /\ editorSession' = <<>>
    /\ feedbackHidden' = TRUE
    /\ Did("togglePractice", 0)
    /\ UNCHANGED <<phase, fetchResult, challengeData, filteredChallenges,
                   completedChallenges, searchInput, activeDifficulty,
                   activeTags, tagChips, progressKey, currentChallenge,
                   toggleButtonId, modalHidden, pendingSuggestions,
                   progressFill, currentExercise, exerciseStats,
                   exerciseKey, successRate>>
    /\ UNCHANGED difficultyCounts
    /\ UNCHANGED suggestedFor
    /\ UNCHANGED <<feedbackTimers, tryAnotherOnclick>>
    /\ UNCHANGED exerciseControls
    /\ loadedExercise' = (loadedExercise /\ editor' = editor)
    /\ activeTab' = "practice"
    /\ UNCHANGED <<currentFlashcard, flashcardStats, selectedChoice, revealHidden>>
    /\ UNCHANGED sheetVars

\* click on #reset-editor, which the modal shows during a practice
\* session: the generated text again and a new session
ResetEditor ==
    /\ phase = "ready"
    /\ ~modalHidden
    /\ practiceState = "active"
    /\ IF editor = <<>>
       THEN UNCHANGED <<editor, editorSession>>
       ELSE /\ editor' = <<[editor[1] EXCEPT !.value = GeneratedPractice,
                                             !.cursor = Cursor(0, 0)]>>
            /\ editorSession' =
                   IF currentChallenge = <<>> THEN newSession(0)
                   ELSE newSession(currentChallenge[1].id)
    /\ Did("resetEditor", 0)
    /\ UNCHANGED <<phase, fetchResult, challengeData, filteredChallenges,
                   completedChallenges, searchInput, activeDifficulty,
                   activeTags, tagChips, progressKey, currentChallenge,
                   toggleButtonId, modalHidden, practiceState,
                   pendingSuggestions, progressFill, currentExercise,
                   exerciseStats, exerciseKey, successRate, feedbackHidden,
                   difficultyCounts, suggestedFor, feedbackTimers,
                   tryAnotherOnclick, exerciseControls, loadedExercise,
                   activeTab, currentFlashcard, flashcardStats,
                   selectedChoice, revealHidden>>
    /\ UNCHANGED sheetVars

\* 'cursorActivity' of the challenge editor
CursorActivity ==
    /\ phase = "ready"
    /\ ~modalHidden
    /\ editorSession # <<>>
    /\ editorSession' = trackEditorAction(editorSession)
    /\ Did("cursorActivity", 0)
    /\ UNCHANGED <<phase, fetchResult, challengeData, filteredChallenges,
                   completedChallenges, searchInput, activeDifficulty,
                   activeTags, tagChips, progressKey, currentChallenge,
                   toggleButtonId, modalHidden, practiceState,
                   pendingSuggestions, progressFill, editor, exerciseVars>>
    /\ UNCHANGED difficultyCounts
    /\ UNCHANGED suggestedFor
    /\ UNCHANGED <<feedbackTimers, tryAnotherOnclick>>
    /\ UNCHANGED <<exerciseControls, loadedExercise>>
    /\ UNCHANGED <<activeTab, currentFlashcard, flashcardStats, selectedChoice, revealHidden>>
    /\ UNCHANGED sheetVars

\* 'change' of the challenge editor; longEnough says whether the session
\* has lasted more than 30 seconds.  checkChallengeProgress schedules the
\* completion suggestion (setTimeout, 2 s).
EditorChange(longEnough) ==
    /\ phase = "ready"
    /\ ~modalHidden
    /\ editorSession # <<>>
    /\ editorSession' = trackEditorAction(editorSession)
    /\ IF /\ currentChallenge # <<>>
          /\ editorSession'[1].actions > ActionThreshold
          /\ longEnough
       THEN /\ pendingSuggestions < MaxPending
            /\ pendingSuggestions' = pendingSuggestions + 1
       ELSE UNCHANGED pendingSuggestions
    /\ Did("editorChange", 0)
    /\ UNCHANGED <<phase, fetchResult, challengeData, filteredChallenges,
                   completedChallenges, searchInput, activeDifficulty,
                   activeTags, tagChips, progressKey, currentChallenge,
                   toggleButtonId, modalHidden, practiceState, progressFill,
                   editor, exerciseVars>>
    /\ UNCHANGED difficultyCounts
    /\ suggestedFor' = IF pendingSuggestions' > pendingSuggestions
                      THEN Append(suggestedFor, editorSession[1].challengeId)
                      ELSE suggestedFor
    /\ UNCHANGED <<feedbackTimers, tryAnotherOnclick>>
    /\ UNCHANGED <<exerciseControls, loadedExercise>>
    /\ UNCHANGED <<activeTab, currentFlashcard, flashcardStats, selectedChoice, revealHidden>>
    /\ UNCHANGED sheetVars

\* the suggestion timer fires and the user answers confirm(); on OK
\* completeChallenge runs
SuggestionTimer(accepted) ==
    /\ phase = "ready"
    /\ pendingSuggestions > 0
    /\ pendingSuggestions' = pendingSuggestions - 1
    /\ IF accepted /\ currentChallenge # <<>>
       THEN /\ completedChallenges' =
                   add(completedChallenges, Num(currentChallenge[1].id))
            /\ \E ts \in Timestamps :
                   progressKey' = saveProgress(completedChallenges', ts)
            /\ progressFill' = statsPercentage(Len(completedChallenges'),
                                               Len(challenges))
       ELSE UNCHANGED <<completedChallenges, progressKey, progressFill>>
    /\ Did(IF accepted THEN "completeChallenge" ELSE "declineSuggestion",
           IF currentChallenge # <<>> THEN currentChallenge[1].id ELSE 0)
    /\ UNCHANGED <<phase, fetchResult, challengeData, filteredChallenges,
                   searchInput, activeDifficulty, activeTags, tagChips,
                   currentChallenge, toggleButtonId, modalHidden,
                   practiceState, editorSession, editor, exerciseVars>>
    /\ difficultyCounts' = IF accepted /\ currentChallenge # <<>> THEN updateDifficultyCounts'
                          ELSE difficultyCounts
    /\ suggestedFor' = Tail(suggestedFor)
    /\ IF accepted /\ currentChallenge # <<>>
       THEN /\ feedbackTimers < MaxPending
            /\ feedbackTimers' = feedbackTimers + 1
       ELSE UNCHANGED feedbackTimers
    /\ UNCHANGED tryAnotherOnclick
    /\ UNCHANGED <<exerciseControls, loadedExercise>>
    /\ UNCHANGED <<activeTab, currentFlashcard, flashcardStats, selectedChoice, revealHidden>>
    /\ UNCHANGED sheetVars

-----------------------------------------------------------------------------
(* Progress management buttons, script.js 634-661 *)

\* variant: the stored item survives
removeItem_kept(item) == item

\* localStorage.removeItem
removeItem(item) == <<>>

\* click on #reset-progress and the answer to confirm()
ResetProgress(confirmed) ==
    /\ phase = "ready"
    /\ modalHidden
    /\ IF confirmed
       THEN /\ completedChallenges' = <<>>
            /\ progressKey' = removeItem(progressKey)
            /\ progressFill' = statsPercentage(0, Len(challenges))
       ELSE UNCHANGED <<completedChallenges, progressKey, progressFill>>
    /\ Did("resetProgress", IF confirmed THEN 1 ELSE 0)
    /\ UNCHANGED <<phase, fetchResult, challengeData, filteredChallenges,
                   searchInput, activeDifficulty, activeTags, tagChips,
                   currentChallenge, toggleButtonId, modalHidden,
                   practiceState, editorSession, pendingSuggestions, editor,
                   exerciseVars>>
    /\ difficultyCounts' = IF confirmed THEN updateDifficultyCounts'
                          ELSE difficultyCounts
    /\ UNCHANGED suggestedFor
    /\ UNCHANGED <<feedbackTimers, tryAnotherOnclick>>
    /\ UNCHANGED <<exerciseControls, loadedExercise>>
    /\ UNCHANGED <<activeTab, currentFlashcard, flashcardStats, selectedChoice, revealHidden>>
    /\ UNCHANGED sheetVars

\* variant: the export also stores the progress
ExportProgress_saving ==
    /\ phase = "ready"
    /\ modalHidden
    /\ lastAction' =
           [name |-> "exportProgress", id |-> 0,
            doc |-> <<exportDocument(completedChallenges, challenges)>>,
            threw |-> "no"]
    /\ \E ts \in Timestamps :
           progressKey' = saveProgress(completedChallenges, ts)
    /\ UNCHANGED <<phase, fetchResult, challengeData, filteredChallenges,
                   completedChallenges, searchInput, activeDifficulty,
                   activeTags, tagChips, currentChallenge,
                   toggleButtonId, modalHidden, practiceState, editorSession,
                   pendingSuggestions, progressFill, editor, exerciseVars>>
    /\ UNCHANGED difficultyCounts
    /\ UNCHANGED suggestedFor
    /\ UNCHANGED <<feedbackTimers, tryAnotherOnclick>>
    /\ UNCHANGED <<exerciseControls, loadedExercise>>
    /\ UNCHANGED <<activeTab, currentFlashcard, flashcardStats, selectedChoice, revealHidden>>
    /\ UNCHANGED sheetVars

\* click on #export-progress
ExportProgress ==
    /\ phase = "ready"
    /\ modalHidden
    /\ lastAction' =
           [name |-> "exportProgress", id |-> 0,
            doc |-> <<exportDocument(completedChallenges, challenges)>>,
            threw |-> "no"]
    /\ UNCHANGED <<phase, fetchResult, challengeData, filteredChallenges,
                   completedChallenges, searchInput, activeDifficulty,
                   activeTags, tagChips, progressKey, currentChallenge,
                   toggleButtonId, modalHidden, practiceState, editorSession,
                   pendingSuggestions, progressFill, editor, exerciseVars>>
    /\ UNCHANGED difficultyCounts
    /\ UNCHANGED suggestedFor
    /\ UNCHANGED <<feedbackTimers, tryAnotherOnclick>>
    /\ UNCHANGED <<exerciseControls, loadedExercise>>
    /\ UNCHANGED <<activeTab, currentFlashcard, flashcardStats, selectedChoice, revealHidden>>
    /\ UNCHANGED sheetVars

-----------------------------------------------------------------------------
(* Practice tab, script.js 687-702, 738-830 and 925-938 *)
(* The controls of the page lie under #challenge-modal while it is open:   *)
(* a click outside the dialog lands on the modal element and closes it     *)
(* (script.js 87-89), and trapFocus keeps the keyboard focus in it         *)
(* (script.js 444).  The handlers of the practice tab run for a control    *)
(* that is enabled and shown, with the modal closed.                       *)

\* the exercise id an option value of #exercise-select stands for, -1 if none
optionId(value) ==
    IF ToNumber(value) = NaN THEN 0 - 1 ELSE ToNumber(value).n

\* 'change' of #exercise-select: the select holds value
SelectExercise(value) ==
    /\ phase = "ready"
    /\ modalHidden
    /\ feedbackHidden
    /\ IF value = <<>>
       THEN /\ UNCHANGED currentExercise
            /\ Did("selectExercise", 0 - 1)
       ELSE IF ~hasExercises(challengeData[1])
       THEN /\ UNCHANGED currentExercise
            /\ Threw("selectExercise", optionId(value), "find")
       ELSE LET exercise == findExercise(practiceExercises, value)
            IN  /\ currentExercise' =
                       IF exercise = <<>> THEN currentExercise ELSE exercise
                /\ Did("selectExercise", optionId(value))
    /\ UNCHANGED <<phase, fetchResult, challengeData, filteredChallenges,
                   completedChallenges, searchInput, activeDifficulty,
                   activeTags, tagChips, progressKey, currentChallenge,
                   toggleButtonId, modalHidden, practiceState, editorSession,
                   pendingSuggestions, progressFill, editor, exerciseStats,
                   exerciseKey, successRate, feedbackHidden>>
    /\ UNCHANGED difficultyCounts
    /\ UNCHANGED suggestedFor
    /\ UNCHANGED <<feedbackTimers, tryAnotherOnclick>>
    /\ exerciseControls' =
           IF value = <<>> THEN ControlsCleared
           ELSE IF /\ hasExercises(challengeData[1])
                   /\ findExercise(practiceExercises, value) # <<>>
           THEN ControlsSelected
           ELSE exerciseControls
    /\ loadedExercise' = (loadedExercise /\ currentExercise' = currentExercise)
    /\ UNCHANGED <<activeTab, currentFlashcard, flashcardStats, selectedChoice, revealHidden>>
    /\ UNCHANGED sheetVars

\* loadExerciseContent: setValue(initial_text), setCursor(0, 0) on the
\* instance in this.editor
loadExerciseContent(instance, exercise) ==
    IF instance = <<>> \/ exercise = <<>> THEN instance
    ELSE <<[instance[1] EXCEPT !.value = exercise[1].initial_text,
                               !.cursor = Cursor(0, 0)]>>

\* initCodeMirrorEditor: an instance on #code-editor unless one exists
initCodeMirrorEditor(instance) ==
    IF instance # <<>> THEN instance
    ELSE <<Editor("code-editor", <<>>, Cursor(0, 0))>>

\* click on #start-exercise
StartExercise ==
    /\ phase = "ready"
    /\ modalHidden
    /\ feedbackHidden
    /\ editor' = IF currentExercise = <<>> THEN editor
                 ELSE loadExerciseContent(initCodeMirrorEditor(editor),
                                          currentExercise)
    /\ Did("startExercise", 0)
    /\ UNCHANGED <<phase, fetchResult, challengeData, filteredChallenges,
                   completedChallenges, searchInput, activeDifficulty,
                   activeTags, tagChips, progressKey, currentChallenge,
                   toggleButtonId, modalHidden, practiceState, editorSession,
                   pendingSuggestions, progressFill, exerciseVars>>
    /\ UNCHANGED difficultyCounts
    /\ UNCHANGED suggestedFor
    /\ UNCHANGED <<feedbackTimers, tryAnotherOnclick>>
    /\ ~exerciseControls.startDisabled
    /\ exerciseControls' = IF currentExercise = <<>> THEN exerciseControls
                            ELSE ControlsStarted
    /\ loadedExercise' = (currentExercise # <<>> \/ loadedExercise)
    /\ UNCHANGED <<activeTab, currentFlashcard, flashcardStats, selectedChoice, revealHidden>>
    /\ UNCHANGED sheetVars

\* click on #reset-exercise
ResetExercise ==
    /\ phase = "ready"
    /\ modalHidden
    /\ feedbackHidden
    /\ editor' = loadExerciseContent(editor, currentExercise)
    /\ Did("resetExercise", 0)
    /\ UNCHANGED <<phase, fetchResult, challengeData, filteredChallenges,
                   completedChallenges, searchInput, activeDifficulty,
                   activeTags, tagChips, progressKey, currentChallenge,
                   toggleButtonId, modalHidden, practiceState, editorSession,
                   pendingSuggestions, progressFill, exerciseVars>>
    /\ UNCHANGED difficultyCounts
    /\ UNCHANGED suggestedFor
    /\ UNCHANGED <<feedbackTimers, tryAnotherOnclick>>
    /\ ~exerciseControls.resetDisabled
    /\ exerciseControls' =
           IF currentExercise = <<>> THEN exerciseControls
           ELSE [exerciseControls EXCEPT !.submitHidden = FALSE]
    /\ loadedExercise' =
           ((currentExercise # <<>> /\ editor # <<>>) \/ loadedExercise)
    /\ UNCHANGED <<activeTab, currentFlashcard, flashcardStats, selectedChoice, revealHidden>>
    /\ UNCHANGED sheetVars

\* the user works in the editor of the practice tab: the widget holds
\* value, its cursor is at cursor
EditorInput(value, cursor) ==
    /\ phase = "ready"
    /\ modalHidden
    /\ feedbackHidden
    /\ editor # <<>>
    /\ editor' = <<[editor[1] EXCEPT !.value = value, !.cursor = cursor]>>
    /\ Did("editorInput", 0)
    /\ UNCHANGED <<phase, fetchResult, challengeData, filteredChallenges,
                   completedChallenges, searchInput, activeDifficulty,
                   activeTags, tagChips, progressKey, currentChallenge,
                   toggleButtonId, modalHidden, practiceState, editorSession,
                   pendingSuggestions, progressFill, exerciseVars>>
    /\ UNCHANGED difficultyCounts
    /\ UNCHANGED suggestedFor
    /\ UNCHANGED <<feedbackTimers, tryAnotherOnclick>>
    /\ UNCHANGED <<exerciseControls, loadedExercise>>
    /\ UNCHANGED <<activeTab, currentFlashcard, flashcardStats, selectedChoice, revealHidden>>
    /\ UNCHANGED sheetVars

\* click on #submit-exercise; lastAction.doc keeps the verdict.  The
\* counter exerciseStats.completed is explored up to limit.
SubmitExercise(limit) ==
    /\ phase = "ready"
    /\ modalHidden
    /\ feedbackHidden
    /\ IF editor = <<>> \/ currentExercise = <<>>
       THEN /\ UNCHANGED <<exerciseStats, exerciseKey, successRate,
                           feedbackHidden>>
            /\ Did("submitExercise", 0 - 1)
       ELSE LET result == evaluateExercise(currentExercise[1],
                                           editor[1].value, editor[1].cursor)
            IN  /\ exerciseStats.completed < limit
                /\ feedbackHidden' = FALSE
                /\ exerciseStats' = countSubmission(exerciseStats, result.success)
                /\ \E ts \in Timestamps :
                       exerciseKey' = saveExerciseProgress(exerciseStats', ts)
                /\ successRate' = <<displayedRate(exerciseStats')>>
                /\ lastAction' = [name |-> "submitExercise",
                                  id |-> currentExercise[1].id,
                                  doc |-> <<result>>, threw |-> "no"]
    /\ UNCHANGED <<phase, fetchResult, challengeData, filteredChallenges,
                   completedChallenges, searchInput, activeDifficulty,
                   activeTags, tagChips, progressKey, currentChallenge,
                   toggleButtonId, modalHidden, practiceState, editorSession,
                   pendingSuggestions, progressFill, editor, currentExercise>>
    /\ UNCHANGED difficultyCounts
    /\ UNCHANGED suggestedFor
    /\ UNCHANGED <<feedbackTimers, tryAnotherOnclick>>
    /\ ~exerciseControls.submitHidden
    /\ UNCHANGED <<exerciseControls, loadedExercise>>
    /\ UNCHANGED <<activeTab, currentFlashcard, flashcardStats, selectedChoice, revealHidden>>
    /\ UNCHANGED sheetVars

\* click on #feedback-close
CloseFeedbackModal ==
    /\ phase = "ready"
    /\ ~feedbackHidden
    /\ feedbackHidden' = TRUE
    /\ Did("closeFeedbackModal", 0)
    /\ UNCHANGED <<phase, fetchResult, challengeData, filteredChallenges,
                   completedChallenges, searchInput, activeDifficulty,
                   activeTags, tagChips, progressKey, currentChallenge,
                   toggleButtonId, modalHidden, practiceState, editorSession,
                   pendingSuggestions, progressFill, editor, currentExercise,
                   exerciseStats, exerciseKey, successRate>>
    /\ UNCHANGED difficultyCounts
    /\ UNCHANGED suggestedFor
    /\ UNCHANGED <<feedbackTimers, tryAnotherOnclick>>
    /\ UNCHANGED <<exerciseControls, loadedExercise>>
    /\ UNCHANGED <<activeTab, currentFlashcard, flashcardStats, selectedChoice, revealHidden>>
    /\ UNCHANGED sheetVars

\* suggestNextChallenge: challenges.find(c => !completed.has(c.id) &&
\* c.id !== this.currentChallenge.id) from entry i on.  The second operand
\* is evaluated for the first entry that is not completed, and reading
\* .id of null throws.  id is the entry offered, 0 when there is none.
RECURSIVE findNextChallenge(_, _, _, _)
findNextChallenge(list, i, completed, current) ==
    IF i > Len(list) THEN [threw |-> FALSE, id |-> 0]
    ELSE IF has(completed, Num(list[i].id))
    THEN findNextChallenge(list, i + 1, completed, current)
    ELSE IF current = <<>> THEN [threw |-> TRUE, id |-> 0]
    ELSE IF list[i].id # current[1].id THEN [threw |-> FALSE, id |-> list[i].id]
    ELSE findNextChallenge(list, i + 1, completed, current)

suggestNextChallenge(list, completed, current) ==
    findNextChallenge(list, 1, completed, current)

\* the 800 ms timer of showCompletionFeedback fires: showFeedbackModal
\* reads this.currentChallenge.title, shows #feedback-modal and sets the
\* onclick handlers of #feedback-close and #try-another
FeedbackTimer ==
    /\ phase = "ready"
    /\ feedbackTimers > 0
    /\ feedbackTimers' = feedbackTimers - 1
    /\ IF currentChallenge = <<>>
       THEN /\ Threw("showFeedbackModal", 0, "title")
            /\ UNCHANGED <<feedbackHidden, tryAnotherOnclick>>
       ELSE /\ feedbackHidden' = FALSE
            /\ tryAnotherOnclick' = TRUE
            /\ Did("showFeedbackModal", currentChallenge[1].id)
    /\ UNCHANGED <<phase, fetchResult, challengeData, filteredChallenges,
                   completedChallenges, searchInput, activeDifficulty,
                   activeTags, tagChips, progressKey, currentChallenge,
                   toggleButtonId, modalHidden, practiceState, editorSession,
                   pendingSuggestions, progressFill, editor, currentExercise,
                   exerciseStats, exerciseKey, successRate>>
    /\ UNCHANGED difficultyCounts
    /\ UNCHANGED suggestedFor
    /\ UNCHANGED <<exerciseControls, loadedExercise>>
    /\ UNCHANGED <<activeTab, currentFlashcard, flashcardStats, selectedChoice, revealHidden>>
    /\ UNCHANGED sheetVars

\* click on #try-another: the listener of setupEventListeners runs
\* tryAnotherExercise; then, once showFeedbackModal has set it, the onclick
\* handler runs closeModal and suggestNextChallenge.  lastAction.id is the
\* challenge suggestNextChallenge offers (its 500 ms timer asks and opens
\* it), 0 when it offers none.
TryAnotherExercise ==
    /\ phase = "ready"
    /\ ~feedbackHidden
    /\ feedbackHidden' = TRUE
    /\ currentExercise' = <<>>
    /\ IF tryAnotherOnclick
       THEN /\ modalHidden' = TRUE
            /\ editor' = <<>>
            /\ currentChallenge' = <<>>
            /\ editorSession' = <<>>
            /\ practiceState' = "preparation"
            /\ LET next == suggestNextChallenge(challenges,
                                                completedChallenges,
                                                currentChallenge')
               IN  IF next.threw
                   THEN Threw("tryAnotherExercise", 0, "suggestNextChallenge")
                   ELSE Did("tryAnotherExercise", next.id)
       ELSE /\ Did("tryAnotherExercise", 0)
            /\ UNCHANGED <<modalHidden, editor, currentChallenge,
                           editorSession, practiceState>>
    /\ UNCHANGED <<phase, fetchResult, challengeData, filteredChallenges,
                   completedChallenges, searchInput, activeDifficulty,
                   activeTags, tagChips, progressKey, toggleButtonId,
                   pendingSuggestions, progressFill, exerciseStats,
                   exerciseKey, successRate>>
    /\ UNCHANGED difficultyCounts
    /\ UNCHANGED suggestedFor
    /\ UNCHANGED <<feedbackTimers, tryAnotherOnclick>>
    /\ exerciseControls' = ControlsCleared
    /\ loadedExercise' = FALSE
    /\ UNCHANGED <<activeTab, currentFlashcard, flashcardStats, selectedChoice, revealHidden>>
    /\ UNCHANGED sheetVars

-----------------------------------------------------------------------------
(* Tabs and flashcards, script.js 60-64, 100-111, 150-182 and 488-612 *)

\* click on one of the three tab buttons
SwitchTab(tab) ==
    /\ phase = "ready"
    /\ modalHidden
    /\ activeTab' = tab
    /\ Did("switchTab", 0)
    /\ UNCHANGED <<phase, fetchResult, challengeData, filteredChallenges,
                   completedChallenges, searchInput, activeDifficulty,
                   activeTags, tagChips, progressKey, currentChallenge,
                   toggleButtonId, modalHidden, practiceState, editorSession,
                   pendingSuggestions, progressFill, editor, exerciseVars,
                   difficultyCounts, suggestedFor, feedbackTimers,
                   tryAnotherOnclick, exerciseControls, loadedExercise,
                   currentFlashcard, flashcardStats, selectedChoice,
                   revealHidden>>
    /\ UNCHANGED sheetVars

\* what the flashcard actions leave alone
flashcardFrame ==
    <<phase, fetchResult, challengeData, filteredChallenges,
      completedChallenges, searchInput, activeDifficulty, activeTags,
      tagChips, progressKey, currentChallenge, toggleButtonId, modalHidden,
      practiceState, editorSession, pendingSuggestions, progressFill, editor,
      exerciseVars, difficultyCounts, suggestedFor, feedbackTimers,
      tryAnotherOnclick, exerciseControls, loadedExercise, activeTab>>

\* click on the choice button with data-choice index (a disabled button
\* delivers no click)
SelectChoice(index) ==
    /\ phase = "ready"
    /\ activeTab = "flashcards"
    /\ currentCard # <<>>
    /\ index \in 0..(currentCard[1].choices - 1)
    /\ ~revealHidden
    /\ selectedChoice' = <<index>>
    /\ Did("selectChoice", index)
    /\ UNCHANGED flashcardFrame
    /\ UNCHANGED <<currentFlashcard, flashcardStats, revealHidden>>
    /\ UNCHANGED sheetVars

\* the statistics step of revealAnswer: if (this.selectedChoice !== null)
countAnswer(stats, choice, correctIndex) ==
    IF choice = <<>> THEN stats
    ELSE [correct |-> stats.correct + (IF choice[1] = correctIndex THEN 1 ELSE 0),
          incorrect |-> stats.incorrect
                            + (IF choice[1] = correctIndex THEN 0 ELSE 1),
          total |-> stats.total + 1]

\* revealAnswer; by is how it was called ("click" on #reveal-answer, or
\* "space", the keyboard shortcut).  Without a current card
\* flashcard.correct_index throws.
revealAnswer(by) ==
    /\ phase = "ready"
    /\ flashcardStats.total < MaxAnswers
    /\ IF currentCard = <<>>
       THEN /\ Threw("revealAnswer", 0, "flashcard")
            /\ UNCHANGED <<flashcardStats, revealHidden>>
       ELSE /\ flashcardStats' = countAnswer(flashcardStats, selectedChoice,
                                             currentCard[1].correct_index)
            /\ revealHidden' = TRUE
            /\ lastAction' = [name |-> "revealAnswer", id |-> currentFlashcard,
                              doc |-> <<by>>, threw |-> "no"]
    /\ UNCHANGED flashcardFrame
    /\ UNCHANGED <<currentFlashcard, selectedChoice>>
    /\ UNCHANGED sheetVars

\* click on #reveal-answer, which revealAnswer hides
RevealAnswerClick ==
    /\ activeTab = "flashcards"
    /\ ~revealHidden
    /\ revealAnswer("click")

\* keydown of Space: the shortcut of setupKeyboardShortcuts calls
\* revealAnswer when #flashcards-section is not hidden
RevealAnswerKey ==
    /\ activeTab = "flashcards"
    /\ revealAnswer("space")

\* nextCard (click on #next-card or ArrowRight, step 1) and previousCard
\* (click on #prev-card or ArrowLeft, step -1).  nextCard reads
\* this.flashcards.length, which throws while this.flashcards is undefined;
\* previousCard compares this.currentFlashcard with 0 first.
TurnCard(step) ==
    /\ phase = "ready"
    /\ activeTab = "flashcards"
    /\ IF flashcards = <<>> /\ step = 1
       THEN /\ Threw("turnCard", step, "flashcards")
            /\ UNCHANGED <<currentFlashcard, selectedChoice, revealHidden>>
       ELSE /\ Did("turnCard", step)
            /\ IF /\ flashcards # <<>>
                  /\ currentFlashcard + step \in 0..(Len(flashcards[1]) - 1)
               THEN /\ currentFlashcard' = currentFlashcard + step
                    /\ selectedChoice' = <<>>
                    /\ revealHidden' = FALSE
               ELSE UNCHANGED <<currentFlashcard, selectedChoice, revealHidden>>
    /\ UNCHANGED flashcardFrame
    /\ UNCHANGED flashcardStats
    /\ UNCHANGED sheetVars

-----------------------------------------------------------------------------
(* The cheatsheet page: cheatsheetApp.init (script.js 1682-1702) and       *)
(* themeManager (script.js 2012-2042)                                      *)

\* Alpine calls init: the statements up to the await of loadCheatsheet
SheetInit ==
    /\ sheetPhase = "created"
    /\ sheetPhase' = "loading"
    /\ loading' = TRUE
    /\ error' = <<>>
    /\ UNCHANGED <<cheatsheet, sheetResponse>>
    /\ UNCHANGED <<osScheme, themeItem, dataTheme, themeWatching, storedTheme>>
    /\ UNCHANGED masteryVars

SheetSettle_withoutFinally ==
    /\ sheetPhase = "loading"
    /\ LET load == loadCheatsheet(sheetResponse, cheatsheet)
       IN  /\ cheatsheet' = load.cheatsheet
           /\ error' = IF load.threw = "no" THEN error
                       ELSE <<loadMessage(load.threw)>>
           /\ loading' = (load.threw # "no")
    /\ sheetPhase' = "done"
    /\ UNCHANGED sheetResponse
    /\ UNCHANGED <<osScheme, themeItem, dataTheme, themeWatching, storedTheme>>
    /\ UNCHANGED masteryVars

\* the fetch settles and init runs to its end: loadCheatsheet returns or
\* throws, setupKeyboardShortcuts registers a listener, the catch clause
\* stores the message and the finally clause clears loading
SheetSettle ==
    /\ sheetPhase = "loading"
    /\ LET load == loadCheatsheet(sheetResponse, cheatsheet)
       IN  /\ cheatsheet' = load.cheatsheet
           /\ error' = IF load.threw = "no" THEN error
                       ELSE <<loadMessage(load.threw)>>
    /\ loading' = FALSE
    /\ sheetPhase' = "done"
    /\ UNCHANGED sheetResponse
    /\ UNCHANGED <<osScheme, themeItem, dataTheme, themeWatching, storedTheme>>
    /\ UNCHANGED masteryVars

\* getItem('cheatsheet-theme') is truthy
HasThemeItem == themeItem # <<>> /\ themeItem[1] # ""

\* e.matches ? 'dark' : 'light' for a scheme of the operating system
schemeTheme(scheme) == IF scheme = "dark" THEN "dark" ELSE "light"

getPreferredTheme ==
    IF HasThemeItem THEN themeItem[1] ELSE schemeTheme(osScheme)

setTheme(theme) ==
    /\ dataTheme' = <<theme>>
    /\ themeItem' = <<theme>>

\* DOMContentLoaded: themeManager.init
ThemeInit ==
    /\ ~themeWatching
    /\ storedTheme' = themeItem
    /\ setTheme(getPreferredTheme)
    /\ themeWatching' = TRUE
    /\ UNCHANGED osScheme
    /\ UNCHANGED <<sheetPhase, sheetResponse, loading, error, cheatsheet>>
    /\ UNCHANGED masteryVars

\* the colour scheme of the operating system changes to scheme; the
\* 'change' listener of setupThemeWatcher runs when it is registered
OsSchemeChange(scheme) ==
    /\ scheme # osScheme
    /\ osScheme' = scheme
    /\ IF themeWatching /\ ~HasThemeItem
       THEN setTheme(schemeTheme(scheme))
       ELSE UNCHANGED <<dataTheme, themeItem>>
    /\ UNCHANGED <<themeWatching, storedTheme>>
    /\ UNCHANGED <<sheetPhase, sheetResponse, loading, error, cheatsheet>>
    /\ UNCHANGED masteryVars

-----------------------------------------------------------------------------
(* Specifications *)

\* Outcomes of the catalog fetch outside the filter specification: the
\* first entries of the pool in id order, or (<<>>) a failed fetch.
PoolInOrder ==
    [i \in 1..Cardinality(EntryPool) |-> CHOOSE e \in EntryPool : e.id = i]

AppCatalogs == {SubSeq(PoolInOrder, 1, n) : n \in 0..MaxAppCatalog}

AppFetches == {<<>>} \cup {<<Document(c)>> : c \in AppCatalogs}

AppItems == {<<>>, <<Garbage>>}

\* Stored progress items of every shape loadProgress distinguishes
StoredLists ==
    { <<>>, <<JNum(1)>>, <<JNum(2), JNum(1)>>, <<JNum(1), JNum(1)>>,
      <<JNum(0), JNum(9)>>, <<JStr(<<"1">>)>>, <<JNull>> }

StoredFields ==
    {JNull, JNum(0), JNum(5), JStr(<<>>), JStr(<<"a", "B">>), JObj(<<>>)}
        \cup {JArr(l) : l \in StoredLists}

StoredItems ==
    {<<>>, <<EmptyText>>, <<Garbage>>}
        \cup {<<Json(v)>> : v \in {JNull, JNum(5), JArr(<<JNum(1)>>), JObj(<<>>),
                                   JObj([lastUpdated |-> JStr(<<"T", 0>>)])}}
        \cup {<<Json(JObj([completedChallenges |-> f]))>> : f \in StoredFields}
        \cup {<<stringifyProgress(<<Num(1)>>, 0)>>}

\* The progress tracker: the modal's completion toggle, reset, export and
\* page reloads; the filter controls and the practice editor are left alone.
Init == Constructed(AppFetches, StoredItems, {<<>>})

Next ==
    \/ InitLoaded
    \/ InitFailed
    \/ Reload(AppFetches)
    \/ \E i \in 1..Len(filteredChallenges) :
           OpenChallengeModal(filteredChallenges[i].id)
    \/ CloseModal
    \/ ToggleChallengeCompletion
    \/ \E confirmed \in BOOLEAN : ResetProgress(confirmed)
    \/ ExportProgress

Spec == Init /\ [][Next]_vars

\* The same with the practice session of the modal and its completion
\* suggestion.
NextPractice ==
    \/ InitLoaded
    \/ InitFailed
    \/ Reload(AppFetches)
    \/ \E i \in 1..Len(filteredChallenges) :
           OpenChallengeModal(filteredChallenges[i].id)
    \/ CloseModal
    \/ ToggleChallengeCompletion
    \/ TogglePractice
    \/ ResetEditor
    \/ CursorActivity
    \/ \E longEnough \in BOOLEAN : EditorChange(longEnough)
    \/ \E accepted \in BOOLEAN : SuggestionTimer(accepted)
    \/ FeedbackTimer
    \/ CloseFeedbackModal
    \/ TryAnotherExercise
    \/ \E confirmed \in BOOLEAN : ResetProgress(confirmed)

InitPractice == Constructed(AppFetches, AppItems, {<<>>})

SpecPractice == InitPractice /\ [][NextPractice]_vars

\* The filter engine: larger catalogs in any order and all short search
\* strings, filter handlers only.
FilterFetches == {<<Document(c)>> : c \in Catalogs(EntryPool, MaxCatalog)}

SearchInputs == StringsUpTo(MaxStrLen)

InitFilter == Constructed(FilterFetches, {<<>>}, {<<>>})

NextFilter ==
    \/ InitLoaded
    \/ \E query \in SearchInputs : HandleSearch(query)
    \/ \E value \in DifficultyValues : HandleFilterDifficulty(value)
    \/ \E value \in tagChips : HandleFilterTag(value)

SpecFilter == InitFilter /\ [][NextFilter]_vars

\* The visible list under filtering and completion actions together.
ViewFetches == {<<Document(c)>> : c \in AppCatalogs}

ViewSearchInputs == {<<>>, <<" ", "B">>, <<"B", "B">>}

InitView == Constructed(ViewFetches, {<<>>}, {<<>>})

NextView ==
    \/ InitLoaded
    \/ \E query \in ViewSearchInputs : HandleSearch(query)
    \/ \E value \in DifficultyValues : HandleFilterDifficulty(value)
    \/ \E value \in tagChips : HandleFilterTag(value)
    \/ \E i \in 1..Len(filteredChallenges) :
           OpenChallengeModal(filteredChallenges[i].id)
    \/ CloseModal
    \/ ToggleChallengeCompletion
    \/ \E confirmed \in BOOLEAN : ResetProgress(confirmed)
    \/ ExportProgress

SpecView == InitView /\ [][NextView]_vars

\* The export: catalogs of up to MaxExportCatalog entries and stored
\* progress of up to MaxExportCompleted ids.
PlainChallenge(i) == Entry(i, <<"a">>, <<>>, <<>>, "Beginner")

ExportCatalogs ==
    {[i \in 1..n |-> PlainChallenge(i)] : n \in 0..MaxExportCatalog}

ExportFetches == {<<Document(c)>> : c \in ExportCatalogs}

ExportItems ==
    {<<>>} \cup {saveProgress([i \in 1..k |-> Num(i)], 0) :
                    k \in 0..MaxExportCompleted}

InitExport == Constructed(ExportFetches, ExportItems, {<<>>})

NextExport ==
    \/ InitLoaded
    \/ Reload(ExportFetches)
    \/ \E confirmed \in BOOLEAN : ResetProgress(confirmed)
    \/ ExportProgress

SpecExport == InitExport /\ [][NextExport]_vars

\* The practice tab.  A document with practice_exercises:
ExerciseDocument(c, exercises) ==
    [challenges |-> c, practice_exercises |-> exercises]

PracticeExercises ==
    << CursorExercise(1, 6, 10),
       CursorExercise(2, 1, 0),
       TextExercise(3, <<" ", "a", " ", "a", " ">>),
       KindExercise(4, "word_navigation"),
       KindExercise(5, "visual_selection"),
       KindExercise(6, "text_objects"),
       KindExercise(7, "regex_match"),
       PlainExercise(8) >>

\* the options of #exercise-select after populateExerciseSelector
exerciseOptions(exercises) ==
    {<<>>} \cup {optionValue(exercises[i].id) : i \in 1..Len(exercises)}

\* cursors around the target (line, column) of a cursor_position exercise
CursorsNear(line, column) ==
    {Cursor(l, c) : l \in {line - 1, line},
                    c \in {x \in (column - MaxColOffset)..(column + MaxColOffset) :
                              x >= 0}}

Cursors == CursorsNear(6, 10) \cup CursorsNear(1, 0) \cup {Cursor(5, 20)}

RECURSIVE StringsOver(_, _)
StringsOver(alphabet, n) ==
    IF n = 0 THEN {<<>>}
    ELSE LET shorter == StringsOver(alphabet, n - 1)
         IN  shorter \cup {Append(t, c) : t \in shorter, c \in alphabet}

Texts ==
    StringsOver({"a", " "}, MaxTextLen)
        \cup {<<"A", " ", "a">>, <<"a", " ", "A">>, <<"A", " ", "A">>}

FewCursors == {Cursor(0, 0), Cursor(5, 11)}

FewTexts == {<<>>, <<"a", " ", "a">>}

\* what the user leaves in the editor: many cursors or many texts
EditorInputs == (FewTexts \X Cursors) \cup (Texts \X FewCursors)

\* The session evaluator: every exercise kind, submitted with the editor
\* states of EditorInputs, up to the feedback on the submission.
EvaluateFetches == {<<ExerciseDocument(<<>>, PracticeExercises)>>}

InitEvaluate == Constructed(EvaluateFetches, {<<>>}, {<<>>})

NextEvaluate ==
    \/ InitLoaded
    \/ \E value \in exerciseOptions(PracticeExercises) : SelectExercise(value)
    \/ StartExercise
    \/ ResetExercise
    \/ \E input \in EditorInputs : EditorInput(input[1], input[2])
    \/ SubmitExercise(MaxStoredCompleted + 1)

SpecEvaluate == InitEvaluate /\ [][NextEvaluate]_vars

\* The exercise statistics: stored items of every shape
\* loadExerciseProgress distinguishes, a few submissions, and the progress
\* reset.
StatsExercises == <<CursorExercise(2, 1, 0), KindExercise(4, "word_navigation")>>

StatsFetches ==
    {<<ExerciseDocument(SubSeq(PoolInOrder, 1, 1), StatsExercises)>>}

StoredStats(completed, success) ==
    JObj([completed |-> JNum(completed), total |-> JNum(0),
          success |-> JNum(success)])

StoredStatsFields ==
    {JNull, JNum(5), JObj(<<>>), JObj([success |-> JNum(2)]),
     JObj([completed |-> JNum(2)]), StoredStats(1, 3), StoredStats(40, 23)}
        \cup {StoredStats(c, n) : c \in 0..MaxStoredCompleted,
                                  n \in 0..MaxStoredCompleted}

StoredStatsItems ==
    {<<>>, <<EmptyText>>, <<Garbage>>, <<Json(JNull)>>, <<Json(JObj(<<>>))>>}
        \cup {<<Json(JObj([exerciseStats |-> f]))>> : f \in StoredStatsFields}

StatsProgressItems == {<<>>, saveProgress(<<Num(1)>>, 0)}

InitStats == Constructed(StatsFetches, StatsProgressItems, StoredStatsItems)

NextStats ==
    \/ InitLoaded
    \/ Reload(StatsFetches)
    \/ \E value \in exerciseOptions(StatsExercises) : SelectExercise(value)
    \/ StartExercise
    \/ \E cursor \in FewCursors : EditorInput(<<>>, cursor)
    \/ SubmitExercise(MaxStoredCompleted + 1)
    \/ CloseFeedbackModal
    \/ TryAnotherExercise
    \/ \E confirmed \in BOOLEAN : ResetProgress(confirmed)
    \/ ExportProgress

SpecStats == InitStats /\ [][NextStats]_vars

\* The editor slot: the practice tab and the practice session of the
\* challenge modal together.
InitEditor == Constructed(StatsFetches, {<<>>}, {<<>>})

NextEditor ==
    \/ InitLoaded
    \/ \E value \in exerciseOptions(StatsExercises) : SelectExercise(value)
    \/ StartExercise
    \/ ResetExercise
    \/ \E cursor \in FewCursors : EditorInput(<<>>, cursor)
    \/ SubmitExercise(MaxStoredCompleted + 1)
    \/ CloseFeedbackModal
    \/ TryAnotherExercise
    \/ \E i \in 1..Len(filteredChallenges) :
           OpenChallengeModal(filteredChallenges[i].id)
    \/ TogglePractice
    \/ CloseModal

SpecEditor == InitEditor /\ [][NextEditor]_vars

\* The flashcards: documents with up to MaxCards cards of two choices, and
\* a document without flashcards_sample.
Card(correctIndex, choices) ==
    [correct_index |-> correctIndex, choices |-> choices]

FlashcardDocument(c, cards) == [challenges |-> c, flashcards_sample |-> cards]

CardPool == {Card(0, 2), Card(1, 2)}

FlashcardFetches ==
    {<<Document(<<>>)>>}
        \cup {<<FlashcardDocument(<<>>, cards)>> :
                  cards \in SeqsUpTo(CardPool, MaxCards)}

Tabs == {"challenges", "practice", "flashcards"}

InitFlashcards == Constructed(FlashcardFetches, {<<>>}, {<<>>})

NextFlashcards ==
    \/ InitLoaded
    \/ \E tab \in Tabs : SwitchTab(tab)
    \/ \E index \in 0..1 : SelectChoice(index)
    \/ RevealAnswerClick
    \/ RevealAnswerKey
    \/ \E step \in {1, 0 - 1} : TurnCard(step)

SpecFlashcards == InitFlashcards /\ [][NextFlashcards]_vars

\* The cheatsheet page: every outcome of the fetch of cheatsheet.json, with
\* and without a stored theme, under both colour schemes.  Alpine calls
\* init when it creates the component and a fetch settles, so both steps
\* of init are taken once they can be.
Schemes == {"light", "dark"}

ThemeItems == {<<>>, <<"">>, <<"light">>, <<"dark">>}

InitCheatsheet ==
    /\ MasteryConstructed({<<>>}, {<<>>}, {<<>>})
    /\ SheetCreated(Schemes, ThemeItems, SheetResponses)

NextCheatsheet ==
    \/ SheetInit
    \/ SheetSettle
    \/ ThemeInit
    \/ \E scheme \in Schemes : OsSchemeChange(scheme)

SpecCheatsheet ==
    /\ InitCheatsheet
    /\ [][NextCheatsheet]_vars
    /\ WF_vars(SheetInit)
    /\ WF_vars(SheetSettle)

\* The lookups: openChallengeModal and selectExercise called with ids that
\* the document may or may not hold, on documents with and without
\* practice_exercises.
LookupIds == 0..MaxLookupId

LookupValues == {<<>>, <<"x">>} \cup {optionValue(i) : i \in LookupIds}

LookupFetches ==
    {<<Document(c)>> : c \in AppCatalogs}
        \cup {<<ExerciseDocument(c, StatsExercises)>> : c \in AppCatalogs}

InitLookup == Constructed(LookupFetches, StatsProgressItems, {<<>>})

NextLookup ==
    \/ InitLoaded
    \/ \E id \in LookupIds : OpenChallengeModal(id)
    \/ CloseModal
    \/ ToggleChallengeCompletion
    \/ \E value \in LookupValues : SelectExercise(value)

SpecLookup == InitLookup /\ [][NextLookup]_vars

\* Catalogs with entries that have no tags property.
UntaggedEntry(i, t, d, df) ==
    [id |-> i, title |-> t, description |-> d, difficulty |-> df]

MalformedPool ==
    { Entry(1, <<"A", "b">>, <<"b", " ", "a">>, << <<"a">> >>, "Beginner"),
      UntaggedEntry(2, <<"a">>, <<>>, "Beginner"),
      UntaggedEntry(3, <<"B">>, <<"a">>, "Advanced") }

MalformedFetches ==
    {<<Document(c)>> : c \in Catalogs(MalformedPool, MaxAppCatalog)}

InitMalformed == Constructed(MalformedFetches, {<<>>}, {<<>>})

NextMalformed ==
    \/ InitLoaded
    \/ InitAborted
    \/ \E query \in SearchInputs : HandleSearch(query)
    \/ \E value \in DifficultyValues : HandleFilterDifficulty(value)
    \/ \E value \in tagChips : HandleFilterTag(value)

SpecMalformed == InitMalformed /\ [][NextMalformed]_vars

-----
(* Properties of the filter engine *)

\* t occurs in s when letter case is ignored
OccursIgnoringCase(s, t) ==
    \E i \in 0..(Len(s) - Len(t)) :
        \A k \in 1..Len(t) : ToLowerChar(s[i + k]) = ToLowerChar(t[k])

\* the predicate of the filter contract for the search term term
SearchHolds(entry, term) ==
    \/ term = <<>>
    \/ OccursIgnoringCase(entry.title, term)
    \/ OccursIgnoringCase(entry.description, term)
    \/ \E i \in 1..Len(entry.tags) : OccursIgnoringCase(entry.tags[i], term)

DifficultyHolds(entry) ==
    activeDifficulty = "all" \/ activeDifficulty = entry.difficulty

TagsHold(entry) ==
    activeTags = {} \/ Range(entry.tags) \cap activeTags # {}

Visible(entry) == \E j \in 1..Len(filteredChallenges) : filteredChallenges[j] = entry

\* the leading and trailing blanks of s removed
Stripped(s) ==
    LET inner == {i \in 1..Len(s) : s[i] # " "}
    IN  IF inner = {} THEN <<>>
        ELSE SubSeq(s, CHOOSE i \in inner : \A j \in inner : i <= j,
                       CHOOSE i \in inner : \A j \in inner : i >= j)

\* C1 as stated: an entry is visible iff the search term (the text of the
\* search box) is empty or occurs, ignoring case, in the title, the
\* description or a tag, and the difficulty facet is "all" or the entry's
\* difficulty, and the tag facet is empty or shares a tag with the entry.
C1_VisibleIffPredicates ==
    phase = "ready" =>
        \A i \in 1..Len(challenges) :
            Visible(challenges[i]) <=>
                /\ SearchHolds(challenges[i], searchInput)
                /\ DifficultyHolds(challenges[i])
                /\ TagsHold(challenges[i])

\* C1 amended: the same, for the search term with its leading and trailing
\* whitespace removed.
C1_VisibleIffPredicatesTrimmed ==
    phase = "ready" =>
        \A i \in 1..Len(challenges) :
            Visible(challenges[i]) <=>
                /\ SearchHolds(challenges[i], Stripped(searchInput))
                /\ DifficultyHolds(challenges[i])
                /\ TagsHold(challenges[i])

\* a padded search term, a difficulty and a tag are all in force and split
\* the catalog
C1_Witness ==
    /\ phase = "ready"
    /\ searchInput # Stripped(searchInput)
    /\ Stripped(searchInput) # <<>>
    /\ activeDifficulty # "all"
    /\ activeTags # {}
    /\ filteredChallenges # <<>>
    /\ Len(filteredChallenges) < Len(challenges)

RECURSIVE IsSubsequence(_, _)
IsSubsequence(a, b) ==
    IF a = <<>> THEN TRUE
    ELSE IF b = <<>> THEN FALSE
    ELSE IF Head(a) = Head(b) THEN IsSubsequence(Tail(a), Tail(b))
    ELSE IsSubsequence(a, Tail(b))

\* C2: the visible list holds only entries of the catalog, each at most
\* once, in the relative order they have in the catalog.
C2_StableSublist ==
    phase = "ready" =>
        /\ IsSubsequence(filteredChallenges, challenges)
        /\ \A i, j \in 1..Len(filteredChallenges) :
               filteredChallenges[i] = filteredChallenges[j] => i = j

\* a filter keeps two entries and drops one, of a catalog that is not in
\* id order
C2_Witness ==
    /\ phase = "ready"
    /\ Len(filteredChallenges) >= 2
    /\ Len(filteredChallenges) < Len(challenges)
    /\ filteredChallenges[1].id > filteredChallenges[2].id
    /\ (searchInput # <<>> \/ activeDifficulty # "all" \/ activeTags # {})

\* C3: the tag facet is a disjunction: with an empty search and difficulty
\* "all", every entry that shares at least one tag with a non-empty
\* selection is visible; so entries tagged {a}, {B}, {a, B} are all visible
\* under the selection {a, B}.
C3_TagFacetIsOr ==
    ( /\ phase = "ready"
      /\ Stripped(searchInput) = <<>>
      /\ activeDifficulty = "all"
      /\ activeTags # {} ) =>
        \A i \in 1..Len(challenges) :
            Range(challenges[i].tags) \cap activeTags # {}
                => Visible(challenges[i])

\* the catalog is the three entries tagged {a}, {B}, {a, B}, both tags are
\* selected, and all three are listed
C3_Witness ==
    /\ phase = "ready"
    /\ Len(challenges) = 3
    /\ {Range(challenges[i].tags) : i \in 1..3} =
           {{<<"a">>}, {<<"B">>}, {<<"a">>, <<"B">>}}
    /\ activeTags = {<<"a">>, <<"B">>}
    /\ searchInput = <<>>
    /\ activeDifficulty = "all"
    /\ filteredChallenges = challenges

-----------------------------------------------------------------------------
(* Properties of the visible list and of the progress tracker *)

\* the entries of the catalog that satisfy the filter contract, in catalog order
ContractVisible ==
    LET Passes(entry) ==
            /\ SearchHolds(entry, Stripped(searchInput))
            /\ DifficultyHolds(entry)
            /\ TagsHold(entry)
    IN  SelectSeq(challenges, Passes)

CompletionActions == {"toggleChallengeCompletion", "resetProgress", "exportProgress"}

C5_ToggleIsInvolution ==
    [][lastAction'.name = "toggleChallengeCompletion" =>
          LET id == toggleButtonChallengeId
              twice == toggleCompletion(completedChallenges', id)
          IN  /\ has(completedChallenges', id) # has(completedChallenges, id)
              /\ \A v \in Members(completedChallenges)
                            \cup Members(completedChallenges') :
                     v # id => (has(completedChallenges', v)
                                   <=> has(completedChallenges, v))
              /\ Members(loadProgress(<<>>, progressKey'))
                     = Members(completedChallenges')
              /\ Members(twice) = Members(completedChallenges)
              /\ \A ts \in Timestamps :
                     Members(loadProgress(<<>>, saveProgress(twice, ts)))
                         = Members(loadProgress(<<>>, progressKey))]_vars

\* a toggle has just taken a challenge out of a set that keeps other members
C5_Witness ==
    /\ phase = "ready"
    /\ lastAction.name = "toggleChallengeCompletion"
    /\ ~has(completedChallenges, Num(lastAction.id))
    /\ completedChallenges # <<>>
    /\ progressKey # <<>>

\* C6: once loaded, restoring from the stored progress item in a fresh
\* instance gives the completed set held in memory, after every handler.
C6_PersistedAfterEveryMutation ==
    phase = "ready" => loadProgress(<<>>, progressKey) = completedChallenges

\* an accepted completion suggestion has just added a second challenge
C6_Witness ==
    /\ phase = "ready"
    /\ lastAction.name = "completeChallenge"
    /\ has(completedChallenges, Num(lastAction.id))
    /\ Len(completedChallenges) >= 2

\* the stored item has the shape {completedChallenges: list of integers}
IsInteger(v) == v.t = "num"

WellShaped(item) ==
    /\ item # <<>>
    /\ item[1].kind = "json"
    /\ item[1].value.t = "obj"
    /\ "completedChallenges" \in DOMAIN item[1].value.fields
    /\ item[1].value.fields.completedChallenges.t = "arr"
    /\ \A v \in Range(item[1].value.fields.completedChallenges.items) :
           IsInteger(v)

\* C7: loadProgress never fails: startup reaches the ready state, and when
\* the stored item is missing, unparseable or not of the expected shape the
\* completed set after the restore is empty.
C7_RestoreFallsBackToEmpty ==
    lastAction.name = "init" =>
        /\ phase = "ready"
        /\ ~WellShaped(progressKey) => completedChallenges = <<>>

AllIntegers(set) == \A v \in Members(set) : IsInteger(v)

\* C8: a completed set of integer ids that is saved and then loaded by a
\* fresh instance comes back unchanged, and every save replaces the stored
\* item by the snapshot of the set just saved, whatever was stored before.
C8_RoundTrip ==
    /\ []((phase = "ready" /\ AllIntegers(completedChallenges)) =>
             \A ts \in Timestamps :
                 loadProgress(<<>>, saveProgress(completedChallenges, ts))
                     = completedChallenges)
    /\ [][lastAction'.name = "toggleChallengeCompletion" =>
             \E ts \in Timestamps :
                 progressKey' = saveProgress(completedChallenges', ts)]_vars

\* a save has just replaced an item that was missing or not a snapshot by
\* one of several integer ids, one of them outside the catalog
C8_Witness ==
    /\ phase = "ready"
    /\ lastAction.name = "toggleChallengeCompletion"
    /\ AllIntegers(completedChallenges)
    /\ Len(completedChallenges) >= 3
    /\ has(completedChallenges, Num(9))
    /\ progressKey = saveProgress(completedChallenges, 0)

CatalogIds == {Num(challenges[i].id) : i \in 1..Len(challenges)}

\* C9: once loaded, every member of the completed set is the id of an entry
\* of the catalog.
C9_CompletedWithinCatalog ==
    phase = "ready" => Members(completedChallenges) \subseteq CatalogIds

\* C10: with a catalog of 0 entries every completion percentage is 0: the
\* progress bar's and the export document's.
C10_ZeroTotalIsZeroPercent ==
    (phase = "ready" /\ Len(challenges) = 0) =>
        /\ progressFill.num = 0
        /\ lastAction.doc # <<>> =>
               lastAction.doc[1].completionPercentage = Num(0)

-----------------------------------------------------------------------------
(* Properties of the export document *)

\* p is the integer nearest to 100 * size / total, halves upwards
IsRoundedPercent(p, size, total) ==
    /\ 2 * total * p <= 200 * size + total
    /\ 200 * size + total < 2 * total * (p + 1)

\* C11: an export of a catalog with at least one entry carries the catalog
\* size as totalChallenges and, as completionPercentage, the integer nearest
\* to 100 * |completed| / total; 3 completed of 10 entries export 30.
C11_ExportPercentageRounded ==
    (lastAction.name = "exportProgress" /\ Len(challenges) > 0) =>
        LET doc == lastAction.doc[1]
            size == Len(completedChallenges)
            total == Len(challenges)
        IN  /\ doc.totalChallenges = total
            /\ doc.completionPercentage.t = "num"
            /\ IsRoundedPercent(doc.completionPercentage.n, size, total)
            /\ (total = 10 /\ size = 3) =>
                   doc.completionPercentage = Num(30)

-----------------------------------------------------------------------------
(* Properties of the session evaluator *)

\* an exercise has just been submitted and graded
Graded == lastAction.name = "submitExercise" /\ lastAction.doc # <<>>

Verdict == lastAction.doc[1].success

Distance(a, b) == IF a < b THEN b - a ELSE a - b

\* C12: a cursor_position exercise is passed exactly when the cursor is on
\* line target_line - 1 and at most 2 columns from target_column, whatever
\* the text; for the target (6, 10) the cursor (5, 11) passes and the
\* cursor (5, 20) fails.
C12_CursorPositionVerdict ==
    (Graded /\ solutionCheck(currentExercise[1]) = "cursor_position") =>
        LET exercise == currentExercise[1]
            cursor == editor[1].cursor
        IN  /\ Verdict <=>
                   /\ cursor.line = exercise.target_line - 1
                   /\ Distance(cursor.ch, exercise.target_column) <= 2
            /\ (exercise.target_line = 6 /\ exercise.target_column = 10) =>
                   /\ cursor = Cursor(5, 11) => Verdict
                   /\ cursor = Cursor(5, 20) => ~Verdict

\* the target (6, 10) was passed with the cursor at (5, 11) and a text in
\* the editor
C12_Witness ==
    /\ Graded
    /\ solutionCheck(currentExercise[1]) = "cursor_position"
    /\ currentExercise[1].target_line = 6
    /\ currentExercise[1].target_column = 10
    /\ editor[1].cursor = Cursor(5, 11)
    /\ editor[1].value # <<>>
    /\ Verdict

\* C13: a text_content exercise is passed exactly when the submitted text
\* and expected_result are the same string once the blanks at both ends of
\* each are removed, letter case and inner blanks included, whatever the
\* cursor.
C13_TextContentVerdict ==
    (Graded /\ solutionCheck(currentExercise[1]) = "text_content") =>
        (Verdict <=>
            Stripped(editor[1].value)
                = Stripped(currentExercise[1].expected_result))

\* a text without the blanks that surround expected_result was accepted,
\* with the cursor away from the start
C13_Witness ==
    /\ Graded
    /\ solutionCheck(currentExercise[1]) = "text_content"
    /\ Verdict
    /\ editor[1].value # currentExercise[1].expected_result
    /\ editor[1].cursor # Cursor(0, 0)

GradedKinds == {"cursor_position", "text_content"}

\* C14: an exercise whose solution_check is neither cursor_position nor
\* text_content (word_navigation, visual_selection, text_objects, an unknown
\* kind, no kind at all) is passed whatever the text and the cursor.
C14_OtherKindsAlwaysPass ==
    (Graded /\ solutionCheck(currentExercise[1]) \notin GradedKinds) => Verdict

\* an exercise without any solution_check was passed with a text in the
\* editor and the cursor away from the start
C14_Witness ==
    /\ Graded
    /\ solutionCheck(currentExercise[1]) = "undefined"
    /\ editor[1].value # <<>>
    /\ editor[1].cursor # Cursor(0, 0)
    /\ Verdict

-----------------------------------------------------------------------------
(* Properties of the exercise statistics *)

\* C15: a graded submission adds one to exerciseStats.completed and adds one
\* to exerciseStats.success exactly when it was passed, and in every state,
\* those restored from the stored exercise statistics included,
\* exerciseStats.success is at most exerciseStats.completed.
C15_SuccessWithinCompleted ==
    /\ [](exerciseStats.success <= exerciseStats.completed)
    /\ [][(lastAction'.name = "submitExercise" /\ lastAction'.doc # <<>>) =>
             /\ exerciseStats'.completed = exerciseStats.completed + 1
             /\ exerciseStats'.success =
                    exerciseStats.success
                        + (IF lastAction'.doc[1].success THEN 1 ELSE 0)]_vars

\* C16: the success rate on display is the integer nearest to
\* 100 * success / completed when completed > 0 and 0 when completed = 0,
\* and lies in 0..100.
C16_DisplayedRate ==
    (phase = "ready" /\ successRate # <<>>) =>
        /\ IF exerciseStats.completed > 0
           THEN IsRoundedPercent(successRate[1], exerciseStats.success,
                                 exerciseStats.completed)
           ELSE successRate[1] = 0
        /\ successRate[1] \in 0..100

-----------------------------------------------------------------------------
(* Properties of the progress reset *)

\* C18: a confirmed reset empties the completed set and removes the stored
\* progress, a declined one changes neither, and in both cases the exercise
\* statistics and their stored item stay as they are.
C18_ResetProgress ==
    [][lastAction'.name = "resetProgress" =>
          /\ lastAction'.id = 1 =>
                 completedChallenges' = <<>> /\ progressKey' = <<>>
          /\ lastAction'.id = 0 =>
                 UNCHANGED <<completedChallenges, progressKey>>
          /\ UNCHANGED <<exerciseStats, exerciseKey>>]_vars

\* a reset was confirmed while exercise statistics were held and stored
C18_Witness ==
    /\ lastAction.name = "resetProgress"
    /\ lastAction.id = 1
    /\ completedChallenges = <<>>
    /\ progressKey = <<>>
    /\ exerciseStats.completed > 0
    /\ exerciseKey # <<>>
    /\ exerciseKey[1].value.fields.exerciseStats.fields.completed
           = JNum(exerciseStats.completed)

-----------------------------------------------------------------------------
(* Properties of the filter pass on entries without tags *)

\* the tags of an entry, none when the property is missing
TagsOrNone(entry) == IF "tags" \in DOMAIN entry THEN entry.tags ELSE <<>>

\* the entries of the catalog that satisfy the filter contract when a
\* missing tags property counts as no tags, in catalog order
TolerantVisible ==
    LET Passes(entry) ==
            /\ \/ Stripped(searchInput) = <<>>
               \/ OccursIgnoringCase(entry.title, Stripped(searchInput))
               \/ OccursIgnoringCase(entry.description, Stripped(searchInput))
               \/ \E i \in 1..Len(TagsOrNone(entry)) :
                      OccursIgnoringCase(TagsOrNone(entry)[i],
                                         Stripped(searchInput))
            /\ DifficultyHolds(entry)
            /\ activeTags = {} \/ Range(TagsOrNone(entry)) \cap activeTags # {}
    IN  SelectSeq(challenges, Passes)

FilterHandlers == {"handleSearch", "handleFilter"}

\* C17: a filter handler ends without an error whatever entries lack tags,
\* and the list it leaves is the filter contract with a missing tags
\* property taken as no tags.
C17_MissingTagsTolerated ==
    lastAction.name \in FilterHandlers =>
        /\ lastAction.threw = "no"
        /\ filteredChallenges = TolerantVisible

-----------------------------------------------------------------------------
(* Properties of the lookups *)

\* the ids of the practice exercises of the document, none when it has no
\* practice_exercises
ExerciseIds ==
    IF hasExercises(challengeData[1])
    THEN {practiceExercises[i].id : i \in 1..Len(practiceExercises)}
    ELSE {}

\* C19: opening a challenge, toggling the completion of a challenge or
\* selecting an exercise by an id that the document does not hold changes
\* neither the current challenge, the current exercise, the completed set
\* nor the stored progress, and ends without an error.
C19_LookupMissIsNoOp ==
    [][(\/ /\ lastAction'.name \in {"openChallengeModal",
                                     "toggleChallengeCompletion"}
           /\ findChallenge(lastAction'.id) = <<>>
        \/ /\ lastAction'.name = "selectExercise"
           /\ lastAction'.id \notin ExerciseIds)
          => /\ UNCHANGED <<currentChallenge, currentExercise,
                            completedChallenges, progressKey>>
             /\ lastAction'.threw = "no"]_vars

-----------------------------------------------------------------------------
(* Properties of the deferred completion *)

DeferredSteps == {"completeChallenge", "declineSuggestion"}

\* C20: the effects of a user action are complete before the next one is
\* handled: while a completion suggestion scheduled by an edit is pending
\* no other action is handled, and a completion it makes is that of the
\* challenge of the practice session whose edit scheduled it.
C20_NoDeferredEffects ==
    [][/\ pendingSuggestions > 0 => lastAction'.name \in DeferredSteps
       /\ (/\ lastAction'.name = "completeChallenge"
           /\ completedChallenges' # completedChallenges)
              => /\ editorSession # <<>>
                 /\ editorSession[1].challengeId = lastAction'.id
                 /\ toggleButtonId = <<lastAction'.id>>]_vars

-----------------------------------------------------------------------------
(* Properties of the startup *)

\* C21: until the catalog has been fetched and parsed nothing is restored,
\* listened to or rendered; the application becomes ready only by taking
\* over a fetched document; after a failed fetch the error is shown, the
\* application never becomes ready (no retry: only a reload of the page
\* starts again) and no step changes the completed set or the stored
\* progress.
C21_StartupOrderedByFetch ==
    /\ [](phase = "loading" =>
             /\ lastAction.name = "constructor"
             /\ challengeData = <<>>
             /\ completedChallenges = <<>>
             /\ filteredChallenges = <<>>
             /\ tagChips = {})
    /\ [](phase = "failed" =>
             /\ lastAction.name = "showError"
             /\ completedChallenges = <<>>
             /\ filteredChallenges = <<>>
             /\ tagChips = {})
    /\ [][phase' = "ready" /\ phase # "ready" =>
             /\ phase = "loading"
             /\ fetchResult # <<>>
             /\ challengeData' = fetchResult]_vars
    /\ [][phase = "failed" =>
             /\ phase' = "failed" \/ lastAction'.name = "constructor"
             /\ UNCHANGED <<completedChallenges, progressKey>>]_vars

\* the fetch failed although progress was stored: the error is shown and
\* the stored progress is neither restored nor touched
C21_Witness ==
    /\ phase = "failed"
    /\ lastAction.name = "showError"
    /\ progressKey # <<>>
    /\ progressKey[1].kind = "json"
    /\ loadProgress(<<>>, progressKey) # <<>>
    /\ completedChallenges = <<>>

-----------------------------------------------------------------------------
(* C22: the per-difficulty counts (all, Beginner, Intermediate, Advanced,  *)
(* Expert) are computed over the unfiltered catalog: once the page is      *)
(* ready they are the numbers of catalog entries of each difficulty, with  *)
(* count(all) the catalog size, under every filter state, and no filter,   *)
(* toggle or reset action changes them while the catalog stays the same.   *)

CatalogCount(d) ==
    IF d = "all" THEN Len(challenges)
    ELSE Cardinality({i \in 1..Len(challenges) : challenges[i].difficulty = d})

C22_CountsOverUnfilteredCatalog ==
    /\ [](phase = "ready" =>
            /\ difficultyCounts # <<>>
            /\ DOMAIN difficultyCounts[1] = DifficultyValues
            /\ \A d \in DifficultyValues :
                   difficultyCounts[1][d] = CatalogCount(d))
    /\ [][phase = "ready" /\ challengeData' = challengeData =>
              difficultyCounts' = difficultyCounts]_vars

\* a filter action has left a view shorter than the catalog, some entry
\* is completed, and the counts are those of the whole catalog
C22_Witness ==
    /\ phase = "ready"
    /\ lastAction.name = "handleFilter"
    /\ Len(challenges) > 1
    /\ Len(filteredChallenges) < Len(challenges)
    /\ completedChallenges # <<>>
    /\ difficultyCounts # <<>>
    /\ difficultyCounts[1]["all"] = Len(challenges)
    /\ difficultyCounts[1]["Beginner"] > Len(filteredChallenges)

-----------------------------------------------------------------------------
(* C23: exportProgress does not mutate state: the completed set, the       *)
(* stored progress item, the catalog, the visible list and the exercise    *)
(* statistics (held and stored) are the same before and after an export,   *)
(* from every reachable state.                                             *)

C23_ExportLeavesStateAlone ==
    [][lastAction'.name = "exportProgress" =>
          UNCHANGED <<completedChallenges, progressKey, challengeData,
                      filteredChallenges, exerciseStats, exerciseKey>>]_vars

\* an export has run with completed challenges, a stored progress item and
\* exercise statistics in place
C23_Witness ==
    /\ lastAction.name = "exportProgress"
    /\ lastAction.doc # <<>>
    /\ completedChallenges # <<>>
    /\ progressKey # <<>>
    /\ exerciseStats.completed > 0
    /\ exerciseKey # <<>>

-----------------------------------------------------------------------------
(* C24: when a completion suggestion is accepted, the challenge added to   *)
(* the completed set is the one whose practice session triggered the       *)
(* suggestion (editorSession.challengeId when the suggestion was           *)
(* scheduled), whatever the user did with the modal during the delay.      *)

C24_CompletesTriggeringChallenge ==
    [][lastAction'.name = "completeChallenge" =>
          /\ suggestedFor # <<>>
          /\ lastAction'.id = suggestedFor[1]
          /\ completedChallenges' =
                 add(completedChallenges, Num(suggestedFor[1]))]_vars

-----------------------------------------------------------------------------
(* C25: after a challenge is completed and the user chooses "try another"  *)
(* in the completion feedback, suggestNextChallenge raises no error and    *)
(* offers the first challenge in catalog order that is neither completed   *)
(* nor the challenge just completed, or nothing when there is none.        *)

RECURSIVE FirstOpen(_, _)
FirstOpen(i, justCompleted) ==
    IF i > Len(challenges) THEN 0
    ELSE IF /\ ~has(completedChallenges, Num(challenges[i].id))
            /\ challenges[i].id \notin justCompleted
    THEN challenges[i].id
    ELSE FirstOpen(i + 1, justCompleted)

C25_TryAnotherOffersNext ==
    [][/\ lastAction'.name = "tryAnotherExercise"
       /\ tryAnotherOnclick
       /\ currentChallenge # <<>>
       /\ has(completedChallenges, Num(currentChallenge[1].id))
       => /\ lastAction'.threw = "no"
          /\ lastAction'.id = FirstOpen(1, {currentChallenge[1].id})]_vars

-----------------------------------------------------------------------------
(* C26: a submission that is graded is graded on the editor of the         *)
(* practice tab, with a content that was loaded from the initial_text of   *)
(* the current exercise; it never grades the buffer of the challenge       *)
(* practice session, whatever the interleaving of startExercise, opening   *)
(* a challenge, starting or ending its practice session and closing the    *)
(* modal.                                                                  *)

-----------------------------------------------------------------------------
(* C27: each display of a flashcard contributes at most one answer to      *)
(* flashcardStats: once the answer of the current card has been revealed,  *)
(* revealing again (with the Space shortcut) changes none of correct,      *)
(* incorrect and total until another card is rendered; and                 *)
(* total = correct + incorrect in every reachable state.                   *)

C27_OneAnswerPerDisplay ==
    /\ [](flashcardStats.total
              = flashcardStats.correct + flashcardStats.incorrect)
    /\ [][revealHidden /\ lastAction'.name = "revealAnswer" =>
              flashcardStats' = flashcardStats]_vars

-----------------------------------------------------------------------------
(* C28: the practice flow of the challenge modal keeps its session data    *)
(* consistent: practiceState is 'active' exactly when editorSession is     *)
(* non-null; a session belongs to the current challenge; and opening a     *)
(* modal, ending the session and closing the modal all lead to             *)
(* 'preparation' with no session.  (A new page load starts over, with     *)
(* practiceState not yet assigned.)                                        *)

-----------------------------------------------------------------------------
(* C29: as long as no theme was stored when themeManager.init ran, the     *)
(* applied theme follows the colour scheme of the operating system: once   *)
(* the watcher is registered, data-theme is the scheme the system reports. *)
(* The 'change' listener runs with the change of the scheme, so the state  *)
(* after the change is the one the theme settles in.                       *)
C29_ThemeFollowsSystem ==
    themeWatching /\ storedTheme = <<>> => dataTheme = <<osScheme>>

-----------------------------------------------------------------------------
(* C30: init of the cheatsheet app terminates, and when it has, loading is *)
(* false; error is non-null exactly when the fetch failed, the response    *)
(* was not ok, or the data lack metadata, categories or items, and then    *)
(* cheatsheet is still the initial empty object.  A body that does not     *)
(* parse counts as a failed fetch; data lack a property when they are no   *)
(* object, do not have it, or hold null or 0 for it.                       *)
HasField(data, field) ==
    /\ data.kind = "object"
    /\ field \in DOMAIN data.fields
    /\ data.fields[field] \notin {"null", "zero"}

SheetFailure(response) ==
    \/ response.outcome \in {"rejected", "status", "unparseable"}
    \/ \E field \in SheetFields : ~HasField(response.data, field)

C30_InitSettles ==
    /\ <>(sheetPhase = "done")
    /\ [](sheetPhase = "done" =>
            /\ ~loading
            /\ error # <<>> <=> SheetFailure(sheetResponse)
            /\ error # <<>> => cheatsheet = EmptyObject)

C30_Witness ==
    /\ sheetPhase = "done"
    /\ ~loading
    /\ sheetResponse.outcome = "json"
    /\ sheetResponse.data.kind = "object"
    /\ DOMAIN sheetResponse.data.fields = {"metadata", "categories"}
    /\ error # <<>>
    /\ cheatsheet = EmptyObject

====
